---- MODULE Spec2Model ----
(***************************************************************************)
(* Model of the Coursera Gemini Solver extension: the answer cache         *)
(* (utils/cache_manager.js), the scan orchestrator                         *)
(* (content_scripts/coursera_solver.js), the background solve handler      *)
(* (background/background.js) and the API client (utils/api_client.js).    *)
(*                                                                         *)
(* Strings are sequences of UTF-16 code units (integers); a hash string    *)
(* is represented by the 32-bit signed integer it prints.                  *)
(***************************************************************************)
EXTENDS Integers, Sequences, FiniteSets, TLC

VARIABLES
    \* ---- persisted answer cache and its writers (cache_manager.js) ----
    cachedAnswers,  \* chrome.storage.local[CACHED_ANSWERS]: key -> entry
    now,            \* Date.now()
    wpc,            \* writer -> position inside CacheManager.set
    wsnap,          \* writer -> the object read at line 45-46
    wpend,          \* writer -> the object built at lines 48-57, to be written
    wkey,           \* writer -> questionHash argument of the pending set
    wres,           \* writer -> result of the writer's last CacheManager.get
    nops,           \* number of cache calls started so far
    \* ---- one call of ApiClient.callGeminiApi (api_client.js) ----
    apiPc,          \* "idle", "fetch", "sleep", "returned" or "thrown"
    apiI,           \* the loop counter i of line 83
    requests,       \* number of fetch() requests sent by this call
    lastResp,       \* outcome of the last fetch()
    waitMs,         \* argument of the last setTimeout of line 126
    apiErr,         \* the error caught at line 120 in the last iteration
    \* ---- module state of the content script (coursera_solver.js) ----
    currentSettings, \* the settings fetched at initialisation
    isSolverActive,  \* the re-entrancy flag of line 20
    \* ---- one scan of detectAndSolveQuizzes, question by question ----
    page,           \* the tab: the questions the detector extracts, the ids of the URL
    scan,           \* the locals of the running detectAndSolveQuizzes call
    marks,          \* question -> class set by UIFeedback.markQuestionAs...
    rendered,       \* question -> arguments of AnswerRenderer.renderAnswer
    sentRequests,   \* question -> payload of its SOLVE_QUESTION_REQUEST
    toasts,         \* <<question, type>> of the toasts shown for a question
    tooltips,       \* <<question, type>> of the tooltips shown on a question
    reads,          \* question -> the cached answer and blocker list read for it
    errorLog,       \* <<question, source>> of the ErrorHandler.logError calls
    \* ---- scheduling of scans in one tab (coursera_solver.js) ----
    initPc,         \* "loading" until initializeSolver has the settings
    debounceArmed,  \* window._quizScanDebounce is a pending timer
    debounceLeft,   \* milliseconds until that timer fires
    sinceBatch,     \* milliseconds since the last relevant mutation batch
    inFlight,       \* the detectAndSolveQuizzes calls that have not returned
    started,        \* number of calls that passed the guards of lines 101-108
    lastReply,      \* status of the reply to the last TRIGGER_SOLVER
    \* ---- one call of parseGeminiQuizResponse (response_parser.js) ----
    parseIn,        \* the arguments: geminiResponse, options, questionType
    parseOut,       \* what the call returned or that it threw
    \* ---- the wrong-answer store (smart_blocker.js) ----
    blockerData,    \* chrome.storage.sync[storageKey]: quiz -> question -> list
    blockerCalls,   \* number of SmartBlocker calls made so far
    blockerLast,    \* the last SmartBlocker call: its arguments and outcome
    \* ---- one SOLVE_QUESTION_REQUEST in the background (background.js) ----
    bgPc,           \* position inside the handler of lines 116-178
    bgMsg,          \* the stored API key and the message payload
    bgReply,        \* the argument of sendResponse
    bgPrompt,       \* the prompt buildQuizPrompt returned
    bgResponse,     \* the text of the reply callGeminiApi returned
    detDocument,    \* the question containers of the document, in document order
    detQuestions,   \* DOMDetector.questions
    detPc,          \* "idle", or "done" once detect() has returned
    hashIn,         \* two inputs of the fingerprint functions
    hashOut,        \* their hashes and signatures
    blockerPending  \* the addWrongAnswer calls between their read and their write

cacheVars == <<cachedAnswers, now, wpc, wsnap, wpend, wkey, wres, nops>>

apiVars == <<apiPc, apiI, requests, lastResp, waitMs, apiErr>>

contentVars == <<currentSettings, isSolverActive>>

solverVars == <<page, scan, marks, rendered, sentRequests, toasts, tooltips, reads, errorLog>>

schedVars == <<initPc, debounceArmed, debounceLeft, sinceBatch, inFlight, started, lastReply>>

parserVars == <<parseIn, parseOut>>

blockerVars == <<blockerData, blockerCalls, blockerLast>>

backgroundVars == <<bgPc, bgMsg, bgReply, bgPrompt, bgResponse>>

detectorVars == <<detDocument, detQuestions, detPc>>

hashVars == <<hashIn, hashOut>>

pendingVars == <<blockerPending>>

vars == <<cachedAnswers, now, wpc, wsnap, wpend, wkey, wres, nops,
          apiPc, apiI, requests, lastResp, waitMs, apiErr,
          currentSettings, isSolverActive,
          page, scan, marks, rendered, sentRequests, toasts, tooltips, reads, errorLog,
          initPc, debounceArmed, debounceLeft, sinceBatch, inFlight, started, lastReply,
          parseIn, parseOut, blockerData, blockerCalls, blockerLast,
          bgPc, bgMsg, bgReply, bgPrompt, bgResponse,
          detDocument, detQuestions, detPc, hashIn, hashOut, blockerPending>>

(***************************************************************************)
(* Generic helpers                                                         *)
(***************************************************************************)
Null == [null |-> TRUE]

EmptyObject == [k \in {} |-> Null]

Range(s) == {s[i] : i \in 1..Len(s)}

Min(a, b) == IF a < b THEN a ELSE b

(***************************************************************************)
(* JavaScript strings, as sequences of UTF-16 code units (ASCII here)      *)
(***************************************************************************)
\* \s of a regular expression and the characters String.prototype.trim removes.
IsSpace(c) == c \in {9, 10, 11, 12, 13, 32}

IsUpper(c) == c >= 65 /\ c <= 90

IsLower(c) == c >= 97 /\ c <= 122

IsDigit(c) == c >= 48 /\ c <= 57

\* String.prototype.toLowerCase
ToLowerChar(c) == IF IsUpper(c) THEN c + 32 ELSE c

ToLowerCase(s) == [i \in 1..Len(s) |-> ToLowerChar(s[i])]

\* String.prototype.toUpperCase, on one character
ToUpperChar(c) == IF IsLower(c) THEN c - 32 ELSE c

\* String.prototype.trim
Trim(s) ==
    LET keep == {i \in 1..Len(s) : ~IsSpace(s[i])}
    IN  IF keep = {} THEN <<>>
        ELSE SubSeq(s, CHOOSE i \in keep : \A j \in keep : i <= j,
                       CHOOSE i \in keep : \A j \in keep : j <= i)

\* s.replace(/\s+/g, ' ')
CollapseSpaces(s) ==
    LET kept == SelectSeq([i \in 1..Len(s) |-> <<i, s[i]>>],
                          LAMBDA p : ~IsSpace(p[2]) \/ p[1] = 1 \/ ~IsSpace(s[p[1] - 1]))
    IN  [i \in 1..Len(kept) |-> IF IsSpace(kept[i][2]) THEN 32 ELSE kept[i][2]]

\* The character class [.,/#!$%^&*;:{}=\-_`~()] of smart_blocker.js line 23.
SignaturePunctuation ==
    {46, 44, 47, 35, 33, 36, 37, 94, 38, 42, 59, 58, 123, 125, 61, 45, 95, 96, 126, 40, 41}

\* s.replace(/[.,/#!$%^&*;:{}=\-_`~()]/g, '')
StripPunctuation(s) == SelectSeq(s, LAMBDA c : c \notin SignaturePunctuation)

\* s.includes(t)
Includes(s, t) ==
    \E i \in 0..(Len(s) - Len(t)) : \A j \in 1..Len(t) : s[i + j] = t[j]

\* a < b for strings: comparison by code units.
StringLess(a, b) ==
    \E i \in 1..(Len(a) + 1) :
        /\ i <= Len(b)
        /\ \A j \in 1..(i - 1) : a[j] = b[j]
        /\ (i = Len(a) + 1 \/ a[i] < b[i])

RECURSIVE HashFrom(_, _, _, _)
\* The loop "hash = ((hash << 5) - hash) + char; hash |= 0": 31 * hash + char
\* modulo 2^32, kept as two 16-bit halves.
HashFrom(s, i, hi, lo) ==
    IF i > Len(s) THEN <<hi, lo>>
    ELSE LET l == lo * 31 + s[i]
             h == hi * 31 + (l \div 65536)
         IN  HashFrom(s, i + 1, h % 65536, l % 65536)

\* The 32-bit signed value of the hash, which hash.toString() prints.
Hash32(s) ==
    LET r == HashFrom(s, 1, 0, 0)
    IN  IF r[1] >= 32768 THEN (r[1] - 65536) * 65536 + r[2]
        ELSE r[1] * 65536 + r[2]

RECURSIVE Concat(_, _)
\* parts.join(sep)
Join(parts, sep) ==
    IF Len(parts) = 0 THEN <<>>
    ELSE Concat([i \in 1..Len(parts) |-> IF i = 1 THEN parts[i] ELSE sep \o parts[i]], 1)

Concat(parts, i) == IF i > Len(parts) THEN <<>> ELSE parts[i] \o Concat(parts, i + 1)

RECURSIVE SortStrings(_)
\* Array.prototype.sort() without a comparator, on strings.
SortStrings(a) ==
    IF Len(a) <= 1 THEN a
    ELSE LET m     == CHOOSE i \in 1..Len(a) :
                          /\ \A j \in 1..Len(a) : ~StringLess(a[j], a[i])
                          /\ \A j \in 1..(i - 1) : a[j] # a[i]
             rest  == [j \in 1..(Len(a) - 1) |-> IF j < m THEN a[j] ELSE a[j + 1]]
         IN  <<a[m]>> \o SortStrings(rest)

(***************************************************************************)
(* SmartBlocker.generateSignature (src/utils/smart_blocker.js)             *)
(***************************************************************************)
\* The normalisation with the white space collapsed before the punctuation
\* is removed.
NormalizeCollapsingFirst(text) == Trim(StripPunctuation(CollapseSpaces(ToLowerCase(text))))

\* Lines 21-25: the normalisation.
NormalizeForSignature(text) == Trim(CollapseSpaces(StripPunctuation(ToLowerCase(text))))

\* generateSignature(text): the decimal string of the hash, written <<hash>>,
\* or '' (line 17), written << >>.
generateSignature(text) ==
    IF Len(text) = 0 THEN <<>> ELSE <<Hash32(NormalizeForSignature(text))>>

(***************************************************************************)
(* CacheManager.generateQuestionHash (src/utils/cache_manager.js)          *)
(***************************************************************************)
\* The hash of the texts as they are, neither trimmed nor in lower case.
generateQuestionHashOfRawTexts(questionText, options) ==
    Hash32(questionText \o <<58, 58>>
               \o Join(SortStrings([i \in 1..Len(options) |-> options[i].text]), <<124>>))

\* The hash of the question and the options as they come, unsorted.
generateQuestionHashUnsorted(questionText, options) ==
    Hash32(ToLowerCase(Trim(questionText)) \o <<58, 58>>
               \o Join([i \in 1..Len(options) |-> ToLowerCase(Trim(options[i].text))], <<124>>))

generateQuestionHash(questionText, options) ==
    LET normalizedQuestionText == ToLowerCase(Trim(questionText))
        sortedOptions == Join(SortStrings([i \in 1..Len(options) |->
                                  ToLowerCase(Trim(options[i].text))]), <<124>>)
        combinedString == normalizedQuestionText \o <<58, 58>> \o sortedOptions
    IN  Hash32(combinedString)

(***************************************************************************)
(* ResponseParser.parseGeminiQuizResponse (src/utils/response_parser.js)   *)
(*                                                                         *)
(* A JavaScript value that is a string or null is written as a sequence of *)
(* at most one string: << >> is null, <<s>> is the string s.               *)
(***************************************************************************)
\* The JavaScript value undefined, which is no question type.
Undefined == "undefined"

\* obj[name] of JavaScript: undefined when the object has no such property.
Prop(obj, name) == IF name \in DOMAIN obj THEN obj[name] ELSE Undefined

\* "explanation:", what /Explanation:\s*/i matches in lower case.
ExplanationKeyword == <<101, 120, 112, 108, 97, 110, 97, 116, 105, 111, 110, 58>>

\* explanationMatch.index + 1, or 0 when responseText.match(...) is null.
ExplanationIndex(responseText) ==
    LET n    == Len(ExplanationKeyword)
        hits == {i \in 1..(Len(responseText) - n + 1) :
                    ToLowerCase(SubSeq(responseText, i, i + n - 1)) = ExplanationKeyword}
    IN  IF hits = {} THEN 0 ELSE CHOOSE i \in hits : \A j \in hits : i <= j

\* Lines 53-56: the text after the keyword, trimmed; null without a match.
ExtractedExplanation(responseText) ==
    LET i == ExplanationIndex(responseText)
    IN  IF i = 0 THEN <<>>
        ELSE <<Trim(SubSeq(responseText, i + Len(ExplanationKeyword), Len(responseText)))>>

\* Line 50 alone: the answer part stays the whole text.
AnswerPartWholeText(responseText) == responseText

\* Lines 50, 55: the text before the keyword, trimmed; the whole text without a match.
AnswerPart(responseText) ==
    LET i == ExplanationIndex(responseText)
    IN  IF i = 0 THEN responseText ELSE Trim(SubSeq(responseText, 1, i - 1))

\* Line 61: the code of maxOptionLetter.
maxOptionLetter(options) == IF Len(options) > 0 THEN 64 + Len(options) ELSE 65

\* The character class [A-maxOptionLetter].
IsOptionLetter(c, options) == c >= 65 /\ c <= maxOptionLetter(options)

\* The positions of the letters of [A-max] with flag i, whatever stands
\* next to them.
SingleLetterPositionsAnywhere(answerPart, options) ==
    {k \in 1..Len(answerPart) : IsOptionLetter(ToUpperChar(answerPart[k]), options)}

\* The positions where (?:^|[^A-Z0-9])([A-max])(?:\.|\s|$) with flag i
\* can capture its letter.
SingleLetterPositions(answerPart, options) ==
    {k \in 1..Len(answerPart) :
        /\ IsOptionLetter(ToUpperChar(answerPart[k]), options)
        /\ \/ k = 1
           \/ LET c == answerPart[k - 1] IN ~(IsUpper(c) \/ IsLower(c) \/ IsDigit(c))
        /\ \/ k = Len(answerPart)
           \/ answerPart[k + 1] = 46
           \/ IsSpace(answerPart[k + 1])}

\* Lines 64-75: the letters of a question parsed in single mode.
SingleModeLetters(answerPart, options) ==
    IF Len(answerPart) = 1 /\ IsOptionLetter(answerPart[1], options)
    THEN answerPart
    ELSE LET ks == SingleLetterPositions(answerPart, options)
         IN  IF ks = {} THEN <<>>
             ELSE <<ToUpperChar(answerPart[CHOOSE k \in ks : \A j \in ks : k <= j])>>

\* Lines 76-91: answerPart.match(/[A-max]/g), the letters of the other mode.
MultipleModeLetters(answerPart, options) ==
    SelectSeq(answerPart, LAMBDA c : IsOptionLetter(c, options))

\* Line 64: the mode follows from questionType === 'single' alone.
ParserMode(questionType) == IF questionType = "single" THEN "single" ELSE "multiple"

parsedAnswerLetters(answerPart, options, questionType) ==
    IF ParserMode(questionType) = "single"
    THEN SingleModeLetters(answerPart, options)
    ELSE MultipleModeLetters(answerPart, options)

\* Lines 94-108 without the seenLetters test of line 100.
LetterAnswersRepeated(letters, options) ==
    LET kept == SelectSeq(letters, LAMBDA c : (c - 64) \in 1..Len(options))
    IN  [k \in 1..Len(kept) |-> options[kept[k] - 64].text]

\* Lines 94-108: the texts of the options the letters name, each letter once.
LetterAnswers(letters, options) ==
    LET idx  == [k \in 1..Len(letters) |-> <<k, letters[k] - 64>>]
        kept == SelectSeq(idx, LAMBDA p :
                    /\ p[2] \in 1..Len(options)
                    /\ \A j \in 1..(p[1] - 1) : letters[j] # letters[p[1]])
    IN  [k \in 1..Len(kept) |-> options[kept[k][2]].text]

\* The text match without the single-choice limit of lines 124-126 and 131-134.
TextMatchAnswersAll(responseText, options, questionType) ==
    LET lower == ToLowerCase(responseText)
        idx   == [i \in 1..Len(options) |-> i]
        kept  == SelectSeq(idx, LAMBDA i : Includes(lower, ToLowerCase(options[i].text)))
    IN  [k \in 1..Len(kept) |-> options[kept[k]].text]

\* Lines 112-135: the options whose text the whole reply contains.
TextMatchAnswers(responseText, options, questionType) ==
    LET lower == ToLowerCase(responseText)
        idx   == [i \in 1..Len(options) |-> i]
        kept  == SelectSeq(idx, LAMBDA i :
                    /\ Includes(lower, ToLowerCase(options[i].text))
                    /\ \A j \in 1..(i - 1) :
                           ~(Includes(lower, ToLowerCase(options[j].text))
                             /\ options[j].text = options[i].text))
        texts == [k \in 1..Len(kept) |-> options[kept[k]].text]
    IN  IF questionType = "single" /\ Len(texts) > 1 THEN <<texts[1]>> ELSE texts

finalParsedAnswers(responseText, options, questionType) ==
    LET byLetter == LetterAnswers(
                        parsedAnswerLetters(AnswerPart(responseText), options, questionType),
                        options)
    IN  IF Len(byLetter) = 0 /\ Len(options) > 0
        THEN TextMatchAnswers(responseText, options, questionType)
        ELSE byLetter

\* The parse without the throws of lines 41-44 and 139-142.
parseGeminiQuizResponseAlwaysReturns(candidateText, options, questionType) ==
    LET responseText == Trim(candidateText)
    IN  [throws |-> FALSE,
         answers |-> finalParsedAnswers(responseText, options, questionType),
         explanation |-> ExtractedExplanation(responseText), confidence |-> 100]

\* parseGeminiQuizResponse on the text of the first candidate, joined and trimmed
\* (lines 34-39); "throws" stands for the Errors of lines 27, 43 and 139.
parseGeminiQuizResponse(candidateText, options, questionType) ==
    LET responseText == Trim(candidateText)
        answers      == finalParsedAnswers(responseText, options, questionType)
    IN  IF Len(responseText) = 0 \/ Len(answers) = 0
        THEN [throws |-> TRUE, answers |-> <<>>, explanation |-> <<>>, confidence |-> 0]
        ELSE [throws |-> FALSE, answers |-> answers,
              explanation |-> ExtractedExplanation(responseText), confidence |-> 100]

(***************************************************************************)
(* CacheManager (src/utils/cache_manager.js)                               *)
(***************************************************************************)
maxCacheSize == 50

\* Object.keys(cachedAnswers).length
KeyCount(obj) == Cardinality(DOMAIN obj)

\* keys.reduce((a, b) => (cachedAnswers[a].timestamp < cachedAnswers[b].timestamp ? a : b))
\* over Object.keys(cachedAnswers). The accumulator is replaced whenever the
\* next key's timestamp is not larger, so the result is the last key, in
\* enumeration order, among those with the smallest timestamp. The keys are
\* canonical integer strings, which JavaScript enumerates in ascending
\* numeric order.
oldestKey(obj) ==
    CHOOSE a \in DOMAIN obj :
        /\ \A b \in DOMAIN obj : obj[a].timestamp <= obj[b].timestamp
        /\ \A b \in DOMAIN obj : obj[b].timestamp = obj[a].timestamp => b <= a

\* delete obj[k]
DeleteKey(obj, k) == [j \in (DOMAIN obj) \ {k} |-> obj[j]]

\* obj[k] = v
PutKey(obj, k, v) == [j \in (DOMAIN obj) \cup {k} |-> IF j = k THEN v ELSE obj[j]]

\* The eviction guard of line 51: keys.length >= maxCacheSize.
NeedsEvictionNever(n) == FALSE

NeedsEviction(n) == n >= maxCacheSize

\* The key deleted at line 54.
EvictedKeyNewest(obj) ==
    CHOOSE a \in DOMAIN obj : \A b \in DOMAIN obj : obj[b].timestamp <= obj[a].timestamp

EvictedKey(obj) == oldestKey(obj)

\* Line 57: { ...answerData, timestamp: Date.now() }.
StampedEntry(answerData, ts) ==
    [f \in (DOMAIN answerData) \cup {"timestamp"} |->
        IF f = "timestamp" THEN ts ELSE answerData[f]]

\* Lines 48-57 of CacheManager.set: the object that set() hands to
\* chrome.storage.local.set, built from the object it read.
CacheSetObject(cached, questionHash, answerData, ts) ==
    LET trimmed == IF NeedsEviction(KeyCount(cached))
                   THEN DeleteKey(cached, EvictedKey(cached))
                   ELSE cached
    IN  PutKey(trimmed, questionHash, StampedEntry(answerData, ts))

\* Lines 25-29 of CacheManager.get, on an object read without failure.
CacheGetValue(cached, questionHash) ==
    IF questionHash \in DOMAIN cached THEN cached[questionHash] ELSE Null

\* CacheManager.get with a failure that does not reach the catch block.
\* CacheManager.get that never finds an entry.
CacheGetResultAlwaysMiss(cached, questionHash, fails) == Null

CacheGetResultIgnoringFailure(cached, questionHash, fails) ==
    CacheGetValue(cached, questionHash)

\* CacheManager.get, lines 23-34: the entry or null, and null from the catch
\* block when the storage read rejects.
CacheGetResult(cached, questionHash, fails) ==
    IF fails THEN Null ELSE CacheGetValue(cached, questionHash)

(***************************************************************************)
(* ApiClient (src/unnamed/part_005, utils/api_client.js)                   *)
(***************************************************************************)
retries == 5
delay == 1500
MaxBackoffMs == 60000
JitterRange == 500

Pow2(n) == IF n = 0 THEN 1 ELSE IF n = 1 THEN 2 ELSE IF n = 2 THEN 4
           ELSE IF n = 3 THEN 8 ELSE IF n = 4 THEN 16 ELSE 32

\* Values of Math.floor(Math.random() * 500) that the model draws.
Jitters == {0, JitterRange - 1}

\* Retry hints, in seconds, that a server sends.
HintSeconds == {30, 61}

NoSeconds == [kind |-> "absent", s |-> 0]

\* The Retry-After header: absent, an HTTP date, or a number of seconds.
RetryAfterHeaders ==
    {NoSeconds, [kind |-> "date", s |-> 0]}
    \cup {[kind |-> "seconds", s |-> n] : n \in HintSeconds}

\* The retryDelay member of the first error detail that has one: absent, a
\* string such as "30s", or a value that is not a string.
RetryDelays ==
    {NoSeconds, [kind |-> "notstring", s |-> 0]}
    \cup {[kind |-> "seconds", s |-> n] : n \in HintSeconds}

\* Bodies of a non-OK response: text that is not JSON, the JSON value null,
\* or an object {error: {message, details}}.
ErrorBodies ==
    {[kind |-> "unparseable", message |-> FALSE, details |-> "absent", retryDelay |-> NoSeconds],
     [kind |-> "null", message |-> FALSE, details |-> "absent", retryDelay |-> NoSeconds],
     [kind |-> "object", message |-> TRUE, details |-> "absent", retryDelay |-> NoSeconds],
     [kind |-> "object", message |-> TRUE, details |-> "notarray", retryDelay |-> NoSeconds]}
    \cup {[kind |-> "object", message |-> TRUE, details |-> "array", retryDelay |-> r] :
              r \in RetryDelays}

NoBody == [kind |-> "object", message |-> FALSE, details |-> "absent", retryDelay |-> NoSeconds]

ErrorStatuses == {400, 401, 403, 404, 429, 500}

\* Outcomes of one fetch(): a rejected promise (network failure, a
\* TypeError), a 200 response whose JSON body has or lacks candidates or is
\* no JSON, or a non-OK response.
FetchOutcomes ==
    {[kind |-> "network", status |-> 0, retryAfter |-> NoSeconds, body |-> NoBody, data |-> "none"]}
    \cup {[kind |-> "http", status |-> 200, retryAfter |-> NoSeconds, body |-> NoBody, data |-> d] :
              d \in {"candidates", "nocandidates", "null", "notjson"}}
    \cup {[kind |-> "http", status |-> st, retryAfter |-> h, body |-> b, data |-> "none"] :
              st \in ErrorStatuses, h \in RetryAfterHeaders, b \in ErrorBodies}

NoResponse == [kind |-> "none", status |-> 0, retryAfter |-> NoSeconds, body |-> NoBody, data |-> "none"]

\* response.ok
ResponseOk(response) == response.status >= 200 /\ response.status <= 299

\* addJitter(ms), with the random jitter as a parameter.
addJitter(ms, jitter) == ms + jitter

\* Line 94: response.json().catch(() => ({}))
ErrorData(response) ==
    IF response.body.kind = "unparseable" THEN NoBody ELSE response.body

\* getRetryDelayMs(response, errorData): [throws, ms], ms = 0 standing for null.
\* Line 38 calls details.find without checking that details is an array.
getRetryDelayMsIgnoreHeader(response, errorData) ==
    IF errorData.kind = "object" /\ errorData.details = "notarray"
    THEN [throws |-> TRUE, ms |-> 0]
    ELSE IF /\ errorData.kind = "object" /\ errorData.details = "array"
            /\ errorData.retryDelay.kind = "seconds" /\ errorData.retryDelay.s > 0
    THEN [throws |-> FALSE, ms |-> errorData.retryDelay.s * 1000]
    ELSE [throws |-> FALSE, ms |-> 0]

getRetryDelayMs(response, errorData) ==
    IF response.retryAfter.kind = "seconds" /\ response.retryAfter.s > 0
    THEN [throws |-> FALSE, ms |-> response.retryAfter.s * 1000]
    ELSE IF errorData.kind = "object" /\ errorData.details = "notarray"
    THEN [throws |-> TRUE, ms |-> 0]
    ELSE IF /\ errorData.kind = "object" /\ errorData.details = "array"
            /\ errorData.retryDelay.kind = "seconds" /\ errorData.retryDelay.s > 0
    THEN [throws |-> FALSE, ms |-> errorData.retryDelay.s * 1000]
    ELSE [throws |-> FALSE, ms |-> 0]

\* statusCode of an error that has none (undefined).
NoStatus == 0

TypeErrorValue == [type |-> "TypeError", statusCode |-> NoStatus, retryDelayMs |-> 0, message |-> "TypeError"]

\* Lines 95-105: the message chain reads errorData.error, which throws a
\* TypeError when errorData is null, in the branches that evaluate it.
MessageChainThrows(response, errorData) ==
    /\ errorData.kind = "null"
    /\ response.status \notin {401, 403, 429}

\* Lines 93-112: the error thrown for a non-OK response.
HttpError(response) ==
    LET errorData == ErrorData(response)
        hint      == getRetryDelayMs(response, errorData)
    IN  IF MessageChainThrows(response, errorData) \/ hint.throws
        THEN TypeErrorValue
        ELSE [type |-> "Error", statusCode |-> response.status,
              retryDelayMs |-> hint.ms,
              message |-> IF response.status = 429 THEN "429 retrying" ELSE "api error"]

\* Lines 85-118: what one iteration of the loop throws, or "none" when it
\* returns data.
AttemptError(response) ==
    IF response.kind = "network" THEN TypeErrorValue
    ELSE IF ~ResponseOk(response) THEN HttpError(response)
    ELSE IF response.data = "notjson"
    THEN [type |-> "SyntaxError", statusCode |-> NoStatus, retryDelayMs |-> 0, message |-> "syntax"]
    ELSE IF response.data \in {"null", "nocandidates"}
    THEN [type |-> "Error", statusCode |-> NoStatus, retryDelayMs |-> 0, message |-> "no candidates"]
    ELSE [type |-> "none", statusCode |-> NoStatus, retryDelayMs |-> 0, message |-> ""]

NoError == [type |-> "none", statusCode |-> NoStatus, retryDelayMs |-> 0, message |-> ""]

\* Line 122: the retry condition.
ShouldRetryAlways(i, error) == i < retries

ShouldRetry(i, error) ==
    /\ i < retries
    /\ \/ error.type = "TypeError"
       \/ error.statusCode = 429
       \/ error.statusCode >= 500

\* Line 123: error.retryDelayMs || delay * Math.pow(2, i)
backoffDelayNoHint(i, error) == delay * Pow2(i)

backoffDelay(i, error) ==
    IF error.retryDelayMs # 0 THEN error.retryDelayMs ELSE delay * Pow2(i)

\* Line 124: addJitter(Math.min(backoffDelay, 60000))
WaitFor(i, error, jitter) == addJitter(Min(backoffDelay(i, error), MaxBackoffMs), jitter)

\* Lines 128-130: the message of the error that is re-thrown.
FinalError(error) ==
    IF error.statusCode = 429
    THEN [error EXCEPT !.message = "429 after retries"]
    ELSE error

ApiIdle ==
    /\ apiPc = "idle"
    /\ apiI = 0
    /\ requests = 0
    /\ lastResp = NoResponse
    /\ waitMs = 0
    /\ apiErr = NoError

(***************************************************************************)
(* The content script at rest (src/content_scripts/coursera_solver.js)     *)
(***************************************************************************)
\* The fallback settings of lines 66-71.
DefaultSettings ==
    [autoSolve |-> TRUE, showExplanations |-> FALSE, minConfidence |-> 70,
     delayBeforeSolveMs |-> 500]

\* A tab without quiz questions.
EmptyPage == [questions |-> <<>>, quizIds |-> Null]

\* No detectAndSolveQuizzes call is running.
NoScan ==
    [pc |-> "idle", forceSolve |-> FALSE, quizQuestions |-> <<>>, quizIds |-> Null,
     i |-> 0, questionHash |-> 0, cachedAnswer |-> Null,
     blockedAnswerSignatures |-> <<>>, filteredOptions |-> <<>>,
     answerData |-> Null, solvedCount |-> 0]

\* Line 19: currentSettings = {}, every setting undefined: auto-solve reads
\* as off, no confidence is below the minimum, no delay is positive.
UnloadedSettings ==
    [autoSolve |-> FALSE, showExplanations |-> FALSE, minConfidence |-> 0,
     delayBeforeSolveMs |-> 0]

ContentIdle ==
    /\ currentSettings = UnloadedSettings
    /\ isSolverActive = FALSE

SolverIdle ==
    /\ page = EmptyPage
    /\ scan = NoScan
    /\ marks = <<>>
    /\ rendered = <<>>
    /\ sentRequests = <<>>
    /\ toasts = {}
    /\ tooltips = {}
    /\ reads = <<>>
    /\ errorLog = {}

SchedulerIdle ==
    /\ initPc = "loading"
    /\ debounceArmed = FALSE
    /\ debounceLeft = 0
    /\ sinceBatch = 0
    /\ inFlight = <<>>
    /\ started = 0
    /\ lastReply = "none"

\* No call has been made.
ParserIdle ==
    /\ parseIn = [geminiResponse |-> Null, options |-> <<>>, questionType |-> Undefined]
    /\ parseOut = <<>>

\* No SmartBlocker call has been made on an empty store.
BlockerIdle ==
    /\ blockerData = <<>>
    /\ blockerCalls = 0
    /\ blockerLast = <<>>

\* No SOLVE_QUESTION_REQUEST has arrived.
BackgroundIdle ==
    /\ bgPc = "idle"
    /\ bgMsg = <<>>
    /\ bgReply = <<>>
    /\ bgPrompt = <<>>
    /\ bgResponse = <<>>

\* detect() has not run.
DetectorIdle ==
    /\ detDocument = <<>>
    /\ detQuestions = <<>>
    /\ detPc = "idle"

\* No fingerprint has been computed.
HashIdle ==
    /\ hashIn = <<>>
    /\ hashOut = <<>>

\* No addWrongAnswer call is between its read and its write.
PendingIdle == blockerPending = <<>>

(***************************************************************************)
(* Cache specification: several writers (pages of the extension) calling   *)
(* CacheManager.get, set and clearCache against one persisted store.       *)
(***************************************************************************)
NumWriters == 2
MaxOps == 2
MaxNow == 51
MaxKey == 52

Writers == 1..NumWriters

\* Timestamps of the entries the store holds at the start.
\* Answer bundles { answers, explanation, confidence } that the writers store:
\* the answers "B" and "A".
OldAnswer == [answers |-> <<<<66>>>>, explanation |-> <<>>, confidence |-> 100]

NewAnswer == [answers |-> <<<<65>>>>, explanation |-> <<>>, confidence |-> 100]

InitTimestamp(pattern, k) == IF pattern = 1 THEN k ELSE 1 + (k % 3)

InitStore(n, pattern) ==
    [k \in 1..n |-> StampedEntry(OldAnswer, InitTimestamp(pattern, k))]

InitSizes == {maxCacheSize - 1, maxCacheSize}

\* Keys the writers use: a stored key and new keys.
SetKeys == {1} \cup ((maxCacheSize + 1)..MaxKey)

\* No cache call in progress.
WritersIdle ==
    /\ now = maxCacheSize
    /\ wpc = [w \in Writers |-> "idle"]
    /\ wsnap = [w \in Writers |-> EmptyObject]
    /\ wpend = [w \in Writers |-> EmptyObject]
    /\ wkey = [w \in Writers |-> 0]
    /\ wres = [w \in Writers |-> Null]
    /\ nops = 0

InitCache ==
    /\ \E n \in InitSizes, p \in {1, 2} : cachedAnswers = InitStore(n, p)
    /\ WritersIdle
    /\ ApiIdle
    /\ ContentIdle
    /\ SolverIdle
    /\ SchedulerIdle
    /\ ParserIdle
    /\ BlockerIdle
    /\ BackgroundIdle
    /\ DetectorIdle
    /\ HashIdle
    /\ PendingIdle

\* Date.now() advances.
Tick ==
    /\ now < MaxNow
    /\ now' = now + 1
    /\ UNCHANGED <<cachedAnswers, wpc, wsnap, wpend, wkey, wres, nops>>
    /\ UNCHANGED <<apiVars, contentVars, solverVars, schedVars, parserVars, blockerVars, backgroundVars,
                   detectorVars, hashVars, pendingVars>>

\* CacheManager.get(questionHash): the storage read resolves, or rejects and
\* the catch block returns null.
CacheGet(w, h, fails) ==
    /\ wpc[w] = "idle"
    /\ nops < MaxOps
    /\ nops' = nops + 1
    /\ wres' = [wres EXCEPT ![w] = CacheGetResult(cachedAnswers, h, fails)]
    /\ UNCHANGED <<cachedAnswers, now, wpc, wsnap, wpend, wkey>>
    /\ UNCHANGED <<apiVars, contentVars, solverVars, schedVars, parserVars, blockerVars, backgroundVars,
                   detectorVars, hashVars, pendingVars>>

\* CacheManager.set, up to the await of line 59: read the stored object,
\* evict, stamp and add the entry.
CacheSetRead(w, h, fails) ==
    /\ wpc[w] = "idle"
    /\ nops < MaxOps
    /\ nops' = nops + 1
    /\ IF fails
       THEN UNCHANGED <<wpc, wsnap, wpend, wkey>>
       ELSE /\ wkey' = [wkey EXCEPT ![w] = h]
            /\ wsnap' = [wsnap EXCEPT ![w] = cachedAnswers]
            /\ wpend' = [wpend EXCEPT ![w] = CacheSetObject(cachedAnswers, h, NewAnswer, now)]
            /\ wpc' = [wpc EXCEPT ![w] = "write"]
    /\ UNCHANGED <<cachedAnswers, now, wres>>
    /\ UNCHANGED <<apiVars, contentVars, solverVars, schedVars, parserVars, blockerVars, backgroundVars,
                   detectorVars, hashVars, pendingVars>>

\* CacheManager.set, line 59: chrome.storage.local.set stores the object, or
\* rejects and the catch block swallows the error.
CacheSetWrite(w, fails) ==
    /\ wpc[w] = "write"
    /\ wpc' = [wpc EXCEPT ![w] = "idle"]
    /\ cachedAnswers' = IF fails THEN cachedAnswers ELSE wpend[w]
    /\ wsnap' = [wsnap EXCEPT ![w] = EmptyObject]
    /\ wpend' = [wpend EXCEPT ![w] = EmptyObject]
    /\ wkey' = [wkey EXCEPT ![w] = 0]
    /\ UNCHANGED <<now, wres, nops>>
    /\ UNCHANGED <<apiVars, contentVars, solverVars, schedVars, parserVars, blockerVars, backgroundVars,
                   detectorVars, hashVars, pendingVars>>

\* CacheManager.clearCache: chrome.storage.local.remove, or a swallowed failure.
CacheClear(w, fails) ==
    /\ wpc[w] = "idle"
    /\ nops < MaxOps
    /\ nops' = nops + 1
    /\ cachedAnswers' = IF fails THEN cachedAnswers ELSE EmptyObject
    /\ UNCHANGED <<now, wpc, wsnap, wpend, wkey, wres>>
    /\ UNCHANGED <<apiVars, contentVars, solverVars, schedVars, parserVars, blockerVars, backgroundVars,
                   detectorVars, hashVars, pendingVars>>

NextCache ==
    \/ Tick
    \/ \E w \in Writers, h \in SetKeys, f \in BOOLEAN : CacheGet(w, h, f)
    \/ \E w \in Writers, h \in SetKeys, f \in BOOLEAN : CacheSetRead(w, h, f)
    \/ \E w \in Writers, f \in BOOLEAN : CacheSetWrite(w, f)
    \/ \E w \in Writers, f \in BOOLEAN : CacheClear(w, f)

SpecCache == InitCache /\ [][NextCache]_vars

(***************************************************************************)
(* Claims about the cache                                                  *)
(***************************************************************************)
Size(obj) == Cardinality(DOMAIN obj)

\* C1: after any sequence of set, get and clearCache calls, also when the
\* read-modify-write steps of several writers interleave, the persisted
\* cache never holds more than 50 entries.
C1_CacheNeverExceedsCap == Size(cachedAnswers) <= maxCacheSize

\* C1 witness: a full store that a set() of a new key has written, while
\* another writer holds a snapshot it read before that write.
C1_Witness ==
    /\ Size(cachedAnswers) = maxCacheSize
    /\ \E k \in DOMAIN cachedAnswers : k > maxCacheSize
    /\ \E w \in Writers : wpc[w] = "write" /\ wsnap[w] # cachedAnswers

IsOldest(obj, k) ==
    /\ k \in DOMAIN obj
    /\ \A j \in DOMAIN obj : obj[k].timestamp <= obj[j].timestamp

\* What one completed set(h, e) did to the object it read.
SetEffectOK(before, h, after) ==
    /\ h \in DOMAIN after
    /\ (h \notin DOMAIN before /\ Size(before) = maxCacheSize) =>
          \E k \in DOMAIN before :
              /\ IsOldest(before, k)
              /\ DOMAIN after = ((DOMAIN before) \ {k}) \cup {h}
              /\ \A j \in (DOMAIN before) \ {k} : after[j] = before[j]
    /\ Size(before) < maxCacheSize =>
          \A j \in (DOMAIN before) \ {h} : j \in DOMAIN after /\ after[j] = before[j]

\* C2: set(h, e) with a new key h on a store of exactly 50 entries removes
\* exactly one entry, one with the smallest timestamp, and h is present
\* afterwards; on a store of fewer than 50 entries set removes no entry.
C2_EvictsExactlyOldest ==
    [][\A w \in Writers :
          (wpc[w] = "write" /\ wpc'[w] = "idle" /\ cachedAnswers' = wpend[w]) =>
              SetEffectOK(wsnap[w], wkey[w], cachedAnswers')]_vars

\* C2 witness: a set of a new key has just replaced the oldest entry of a
\* store that held exactly 50 entries.
C2_Witness ==
    /\ Size(cachedAnswers) = maxCacheSize
    /\ \A w \in Writers : wpc[w] = "idle"
    /\ \E h \in DOMAIN cachedAnswers : h > maxCacheSize
    /\ \E k \in 1..maxCacheSize : k \notin DOMAIN cachedAnswers

(***************************************************************************)
(* API specification: one call of callGeminiApi against a server that      *)
(* answers each request with any of FetchOutcomes.                         *)
(***************************************************************************)
\* callGeminiApi is entered with a key and a prompt (lines 63-83).
ApiStart ==
    /\ apiPc = "idle"
    /\ apiPc' = "fetch"
    /\ UNCHANGED <<apiI, requests, lastResp, waitMs, apiErr>>
    /\ UNCHANGED <<cacheVars, contentVars, solverVars, schedVars, parserVars, blockerVars, backgroundVars,
                   detectorVars, hashVars, pendingVars>>

\* One iteration of the loop of line 83: the request, and the catch block.
ApiAttempt(response, jitter) ==
    /\ apiPc = "fetch"
    /\ requests' = requests + 1
    /\ lastResp' = response
    /\ LET error == AttemptError(response)
       IN  IF error.type = "none"
           THEN /\ apiPc' = "returned"
                /\ apiErr' = NoError
                /\ UNCHANGED waitMs
           ELSE IF ShouldRetry(apiI, error)
           THEN /\ apiPc' = "sleep"
                /\ apiErr' = error
                /\ waitMs' = WaitFor(apiI, error, jitter)
           ELSE /\ apiPc' = "thrown"
                /\ apiErr' = FinalError(error)
                /\ UNCHANGED waitMs
    /\ UNCHANGED apiI
    /\ UNCHANGED <<cacheVars, contentVars, solverVars, schedVars, parserVars, blockerVars, backgroundVars,
                   detectorVars, hashVars, pendingVars>>

\* The timer of line 126 fires and the loop goes on with i + 1.
ApiWake ==
    /\ apiPc = "sleep"
    /\ apiPc' = "fetch"
    /\ apiI' = apiI + 1
    /\ UNCHANGED <<requests, lastResp, waitMs, apiErr>>
    /\ UNCHANGED <<cacheVars, contentVars, solverVars, schedVars, parserVars, blockerVars, backgroundVars,
                   detectorVars, hashVars, pendingVars>>

NextApi ==
    \/ ApiStart
    \/ \E r \in FetchOutcomes, j \in Jitters : ApiAttempt(r, j)
    \/ ApiWake

InitApi ==
    /\ ContentIdle
    /\ SolverIdle
    /\ SchedulerIdle
    /\ ParserIdle
    /\ BlockerIdle
    /\ BackgroundIdle
    /\ DetectorIdle
    /\ HashIdle
    /\ PendingIdle
    /\ cachedAnswers = EmptyObject
    /\ WritersIdle
    /\ ApiIdle

SpecApi == InitApi /\ [][NextApi]_vars

(***************************************************************************)
(* Claims about the API client                                             *)
(***************************************************************************)
\* A non-OK HTTP response whose status is neither 429 nor 500 or above.
NonRetryableStatus(response) ==
    /\ response.kind = "http"
    /\ ~ResponseOk(response)
    /\ response.status # 429
    /\ response.status < 500

\* C9: an HTTP response whose status is neither 429 nor 500 or above makes
\* callGeminiApi fail at once with an error carrying that status; no
\* further request follows it.
C9_NonRetryableFailsAtOnce ==
    NonRetryableStatus(lastResp) =>
        /\ apiPc = "thrown"
        /\ apiErr.statusCode = lastResp.status

\* The retry hint a response carries, in milliseconds (0: none): the
\* Retry-After header when it is a positive number of seconds, otherwise
\* the retryDelay string of the error body.
CarriedHintMs(response) ==
    IF response.retryAfter.kind = "seconds" /\ response.retryAfter.s > 0
    THEN response.retryAfter.s * 1000
    ELSE IF /\ response.body.kind = "object" /\ response.body.details = "array"
            /\ response.body.retryDelay.kind = "seconds"
    THEN response.body.retryDelay.s * 1000
    ELSE 0

WaitingAfterHinted429 ==
    /\ apiPc = "sleep"
    /\ lastResp.kind = "http"
    /\ lastResp.status = 429
    /\ CarriedHintMs(lastResp) > 0

\* C10 as stated: after a 429 response with a retry hint of d milliseconds
\* the client waits at least d milliseconds before the next request, for
\* every positive d.
C10_WaitsAtLeastHint ==
    WaitingAfterHinted429 => waitMs >= CarriedHintMs(lastResp)

\* C10 amended: after a 429 response with a retry hint of d milliseconds
\* the client waits at least min(d, 60000) milliseconds before the next
\* request.
C10_WaitsAtLeastCappedHint ==
    WaitingAfterHinted429 => waitMs >= Min(CarriedHintMs(lastResp), MaxBackoffMs)

\* C10 witness: the client sleeps after a 429 whose hint is below the cap
\* and was honoured in full.
C10_Witness ==
    /\ WaitingAfterHinted429
    /\ CarriedHintMs(lastResp) < MaxBackoffMs
    /\ CarriedHintMs(lastResp) > delay * Pow2(apiI)
    /\ waitMs >= CarriedHintMs(lastResp)

\* The delay the retry after attempt i starts from: the hint of the response
\* when it carries one, baseDelay * 2^i otherwise.
SeedDelay(response, i) ==
    IF CarriedHintMs(response) > 0 THEN CarriedHintMs(response) ELSE delay * Pow2(i)

\* C11: before the retry that follows failed attempt i the client waits
\* min(d, 60000) + j milliseconds, d being the server's retry hint when one
\* was given and baseDelay * 2^i otherwise, j an integer with 0 <= j < 500;
\* no wait exceeds 60499 ms.
C11_WaitIsCappedSeedPlusJitter ==
    apiPc = "sleep" =>
        /\ \E j \in 0..(JitterRange - 1) :
               waitMs = Min(SeedDelay(lastResp, apiI), MaxBackoffMs) + j
        /\ waitMs <= MaxBackoffMs + JitterRange - 1

\* C12: callGeminiApi sends at most retries + 1 requests; it returns only a
\* response with a candidate, and otherwise throws the error of its last
\* attempt; when the retries are used up on HTTP 429 the message thrown is
\* the advice to wait.
C12_EndsWithCandidatesOrLastError ==
    /\ requests <= retries + 1
    /\ apiPc = "returned" => (lastResp.status = 200 /\ lastResp.data = "candidates")
    /\ apiPc = "thrown" =>
           /\ apiErr.type # "none"
           /\ apiErr.type = AttemptError(lastResp).type
           /\ (lastResp.kind = "http" /\ lastResp.status = 429)
                  => (requests = retries + 1 /\ apiErr.message = "429 after retries")

(***************************************************************************)
(* The solve pipeline: DOMDetector.extractQuestion (src/unnamed/part_006), *)
(* detectAndSolveQuizzes (src/content_scripts/coursera_solver.js) and the  *)
(* SOLVE_QUESTION_REQUEST handler (src/background/background.js)           *)
(***************************************************************************)
\* part_006 line 356: 'multiple' when some option is a checkbox.
DetectedType(options) ==
    IF \E k \in 1..Len(options) : options[k].element.type = "checkbox"
    THEN "multiple" ELSE "single"

\* part_006 lines 364-369: the object extractQuestion returns.
extractQuestion(container, questionText, options) ==
    [container |-> container, question |-> questionText, options |-> options,
     questionType |-> DetectedType(options)]

Option(text, value, inputType) ==
    [text |-> text, value |-> value, element |-> [type |-> inputType]]

\* "Capital of France?" with the radio options "Lyon", "Paris", "paris!".
CapitalQuestion ==
    extractQuestion("q-capital",
        <<67, 97, 112, 105, 116, 97, 108, 32, 111, 102, 32, 70, 114, 97, 110, 99, 101, 63>>,
        <<Option(<<76, 121, 111, 110>>, "lyon", "radio"),
          Option(<<80, 97, 114, 105, 115>>, "paris", "radio"),
          Option(<<112, 97, 114, 105, 115, 33>>, "paris2", "radio")>>)

\* "Select the primes" with the checkbox options "Two", "Four".
PrimesQuestion ==
    extractQuestion("q-primes",
        <<83, 101, 108, 101, 99, 116, 32, 116, 104, 101, 32, 112, 114, 105, 109, 101, 115>>,
        <<Option(<<84, 119, 111>>, "two", "checkbox"),
          Option(<<70, 111, 117, 114>>, "four", "checkbox")>>)

\* extractCourseraIdentifiers(window.location.href) on a quiz URL.
SomeQuizIds == [courseId |-> "course", quizId |-> "quiz"]

\* The tabs of the model: what detector.getQuestions() returns there and what
\* the URL parser returns for the address.
Pages ==
    {EmptyPage,
     [questions |-> <<CapitalQuestion>>, quizIds |-> SomeQuizIds],
     [questions |-> <<CapitalQuestion, PrimesQuestion>>, quizIds |-> SomeQuizIds],
     [questions |-> <<PrimesQuestion, CapitalQuestion>>, quizIds |-> Null]}

\* Settings the background can return for FETCH_SETTINGS_REQUEST.
SettingsChoices ==
    {DefaultSettings,
     [autoSolve |-> FALSE, showExplanations |-> FALSE, minConfidence |-> 70,
      delayBeforeSolveMs |-> 0]}

\* Line 150: the cache key of a detected question.
QuestionHash(questionData) ==
    generateQuestionHash(questionData.question, questionData.options)

\* Answer bundles of earlier scans: "Paris" and "Lyon" for the capital
\* question, "Two" for the primes question.
CachedParis == [answers |-> <<<<80, 97, 114, 105, 115>>>>, explanation |-> <<>>, confidence |-> 100]

CachedLyon == [answers |-> <<<<76, 121, 111, 110>>>>, explanation |-> <<>>, confidence |-> 100]

CachedTwo == [answers |-> <<<<84, 119, 111>>>>, explanation |-> <<>>, confidence |-> 100]

\* Stores a scan can find: empty, or filled by earlier scans at time 0.
SolverStores ==
    {EmptyObject,
     PutKey(EmptyObject, QuestionHash(CapitalQuestion), StampedEntry(CachedLyon, 0)),
     PutKey(PutKey(EmptyObject, QuestionHash(CapitalQuestion), StampedEntry(CachedParis, 0)),
            QuestionHash(PrimesQuestion), StampedEntry(CachedTwo, 0))}

\* What SmartBlocker.getWrongAnswers can resolve to for a question: nothing
\* (also on a storage failure, smart_blocker.js line 103-106), the second
\* option, or every option.
BlockerLists(questionData) ==
    LET sigs == [k \in 1..Len(questionData.options) |->
                    generateSignature(questionData.options[k].text)]
    IN  {<<>>, <<sigs[2]>>, sigs}

\* Lines 165-172: the options whose signature is not blocked, in order.
UnblockedOptionsInverted(options, blockedAnswerSignatures) ==
    SelectSeq(options, LAMBDA option :
        generateSignature(option.text) \in Range(blockedAnswerSignatures))

UnblockedOptions(options, blockedAnswerSignatures) ==
    SelectSeq(options, LAMBDA option :
        generateSignature(option.text) \notin Range(blockedAnswerSignatures))

\* filteredOptions when the blocker list is not applied.
FilteredOptionsUnfiltered(options, blockedAnswerSignatures) == options

\* Lines 163-177: filteredOptions, with the fallback to the original options.
FilteredOptions(options, blockedAnswerSignatures) ==
    IF Len(blockedAnswerSignatures) > 0
    THEN LET kept == UnblockedOptions(options, blockedAnswerSignatures)
         IN  IF Len(kept) = 0 /\ Len(options) > 0 THEN options ELSE kept
    ELSE options

\* Lines 173-176: the fallback was taken.
AllOptionsBlocked(options, blockedAnswerSignatures) ==
    /\ Len(blockedAnswerSignatures) > 0
    /\ Len(UnblockedOptions(options, blockedAnswerSignatures)) = 0
    /\ Len(options) > 0

\* Lines 189-192: cachedAnswer.answers.some(...).
isCachedAnswerBlockedNever(cachedAnswer, blockedAnswerSignatures) == FALSE

isCachedAnswerBlocked(cachedAnswer, blockedAnswerSignatures) ==
    \E k \in 1..Len(cachedAnswer.answers) :
        generateSignature(cachedAnswer.answers[k]) \in Range(blockedAnswerSignatures)

\* Lines 220-224: the payload; questionData.type reads a property the
\* detector's object does not have.
serializableQuestionData(questionData, filteredOptions) ==
    [question |-> questionData.question,
     options |-> [k \in 1..Len(filteredOptions) |->
                    [text |-> filteredOptions[k].text, value |-> filteredOptions[k].value]],
     questionType |-> Prop(questionData, "type")]

\* Structured cloning of the message: a property that is undefined is dropped
\* (question and options are always defined at line 220).
Serialized(obj) ==
    [f \in {g \in DOMAIN obj : ~(g = "questionType" /\ obj[g] = Undefined)} |-> obj[f]]

\* Replies of the model, the joined text of the first candidate: "B", "A, C", "?".
ReplyTexts == {<<66>>, <<65, 44, 32, 67>>, <<63>>}

\* What one run of the background handler meets: whether the API key is
\* stored, and whether callGeminiApi returns a reply or throws.
BackgroundRuns ==
    {[apiKey |-> FALSE, api |-> "throws", text |-> <<>>],
     [apiKey |-> TRUE, api |-> "throws", text |-> <<>>]}
    \cup {[apiKey |-> TRUE, api |-> "returns", text |-> t] : t \in ReplyTexts}

\* background.js line 149 (and PromptBuilder's input check) and line 152
\* are reached and passed: the parser is called.
ParserIsCalled(questionData, run) ==
    /\ run.apiKey
    /\ Len(questionData.question) > 0
    /\ Len(questionData.options) > 0
    /\ run.api = "returns"

\* background.js lines 116-178: the response to SOLVE_QUESTION_REQUEST.
SolveQuestionRequest(questionData, run) ==
    IF ~run.apiKey
    THEN [status |-> "error", message |-> "Gemini API Key not found."]
    ELSE IF ~ParserIsCalled(questionData, run)
    THEN [status |-> "error", message |-> "Failed to get answer from Gemini API."]
    ELSE LET parsedResult == parseGeminiQuizResponse(run.text, questionData.options,
                                 Prop(questionData, "questionType"))
         IN  IF parsedResult.throws
             THEN [status |-> "error", message |-> "Failed to extract any valid answer."]
             ELSE [status |-> "success", answers |-> parsedResult.answers,
                   explanation |-> parsedResult.explanation,
                   confidence |-> IF parsedResult.confidence = 0 THEN 100
                                  ELSE parsedResult.confidence]

\* How chrome.runtime.sendMessage settles: with the handler's response, with
\* undefined, or by rejecting (no receiving end, port closed).
Transports == {"response", "undefined", "rejects"}

\* UIFeedback.markQuestionAsProcessing (part_007 lines 160-172), on the class set.
markQuestionAsProcessing(classes) ==
    (classes \ {"gs-solved", "gs-error", "gs-warning"}) \cup {"gs-processing"}

\* UIFeedback.markQuestionAsSolved (part_007 lines 179-194), on the class set.
markQuestionAsSolved(classes, type) ==
    (classes \ {"gs-processing"}) \cup
        {IF type = "success" THEN "gs-success"
         ELSE IF type = "error" THEN "gs-error" ELSE "gs-warning"}

\* Line 245: the key handed to CacheManager.set.
CacheKeyOfFiltered(s) ==
    generateQuestionHash(s.quizQuestions[s.i].question, s.filteredOptions)

CacheKey(s) == s.questionHash

\* Lines 101-108: the guards at the top of detectAndSolveQuizzes.
PassesGuards(forceSolve, settings) ==
    /\ ~(isSolverActive /\ ~forceSolve)
    /\ ~(~settings.autoSolve /\ ~forceSolve)

\* Line 79: the handler of TRIGGER_SOLVER calls the scan only when none runs.
HandlerMayStartAlways(active) == TRUE

HandlerMayStart(active) == ~active

(***************************************************************************)
(* Solver specification: one detectAndSolveQuizzes call on one tab, with   *)
(* any blocker list, any reply of the background and any storage failure.  *)
(***************************************************************************)
NoRender == [answers |-> <<>>, autoSelect |-> FALSE, source |-> "none"]

NoRequest == [sent |-> FALSE, questionData |-> Null, parsedAs |-> "none"]

NoRead == [decided |-> FALSE, cachedAnswer |-> Null, blockedAnswerSignatures |-> <<>>]

\* Lines 137-147: the check that lets a question into the pipeline.
ValidQuestionData(questionData) ==
    /\ Len(questionData.question) > 0
    /\ Len(questionData.options) > 0

\* The for loop takes the next question; after the last one the finally
\* block of lines 258-259 runs.
Advance(s) ==
    IF s.i < Len(s.quizQuestions)
    THEN /\ scan' = [s EXCEPT !.pc = "cache_get", !.i = s.i + 1]
         /\ UNCHANGED isSolverActive
    ELSE /\ scan' = [s EXCEPT !.pc = "done"]
         /\ isSolverActive' = FALSE

\* Lines 154-215, once the cached answer and the blocker list are known:
\* filter the options, then render the cached answer or go on to the request.
Decide(s, blocked, log) ==
    LET questionData == s.quizQuestions[s.i]
        filtered     == FilteredOptions(questionData.options, blocked)
        fallback     == AllOptionsBlocked(questionData.options, blocked)
        s1           == [s EXCEPT !.blockedAnswerSignatures = blocked,
                                  !.filteredOptions = filtered]
    IN  /\ reads' = [reads EXCEPT ![s.i] =
                        [decided |-> TRUE, cachedAnswer |-> s.cachedAnswer,
                         blockedAnswerSignatures |-> blocked]]
        /\ toasts' = IF fallback THEN toasts \cup {<<s.i, "warning">>} ELSE toasts
        /\ errorLog' = IF fallback THEN log \cup {<<s.i, "SmartBlocker">>} ELSE log
        /\ IF Len(filtered) = 0
           THEN /\ marks' = [marks EXCEPT ![s.i] = markQuestionAsSolved(@, "error")]
                /\ UNCHANGED <<rendered, tooltips>>
                /\ Advance(s1)
           ELSE IF s.cachedAnswer # Null /\ ~isCachedAnswerBlocked(s.cachedAnswer, blocked)
           THEN /\ rendered' = [rendered EXCEPT ![s.i] =
                                   [answers |-> s.cachedAnswer.answers,
                                    autoSelect |-> currentSettings.autoSolve,
                                    source |-> "cache"]]
                /\ tooltips' = tooltips \cup {<<s.i, "info">>}
                /\ UNCHANGED marks
                /\ Advance([s1 EXCEPT !.solvedCount = @ + 1])
           ELSE /\ marks' = [marks EXCEPT ![s.i] = markQuestionAsProcessing(@)]
                /\ tooltips' = tooltips \cup {<<s.i, "info">>}
                /\ UNCHANGED rendered
                /\ scan' = [s1 EXCEPT !.pc = "request"]
                /\ UNCHANGED isSolverActive

\* detectAndSolveQuizzes(forceSolve) is called, by initializeSolver or the
\* debounce timer (forceSolve false) or by the TRIGGER_SOLVER handler
\* (forceSolve true), and passes its guards: lines 109-131.
SolverStart(forceSolve) ==
    /\ scan.pc = "idle"
    /\ forceSolve => HandlerMayStart(isSolverActive)
    /\ PassesGuards(forceSolve, currentSettings)
    /\ LET n == Len(page.questions)
       IN  /\ marks' = [k \in 1..n |-> {}]
           /\ rendered' = [k \in 1..n |-> NoRender]
           /\ sentRequests' = [k \in 1..n |-> NoRequest]
           /\ reads' = [k \in 1..n |-> NoRead]
           /\ tooltips' = {}
           /\ IF n = 0
              THEN /\ scan' = [NoScan EXCEPT !.pc = "done", !.forceSolve = forceSolve]
                   /\ isSolverActive' = FALSE
                   /\ toasts' = {<<0, "info">>}
                   /\ UNCHANGED errorLog
              ELSE /\ scan' = [NoScan EXCEPT !.pc = "cache_get", !.forceSolve = forceSolve,
                                             !.quizQuestions = page.questions,
                                             !.quizIds = page.quizIds, !.i = 1]
                   /\ isSolverActive' = TRUE
                   /\ toasts' = IF page.quizIds = Null THEN {<<0, "warning">>} ELSE {}
                   /\ errorLog' = IF page.quizIds = Null
                                  THEN {<<0, "CourseraSolver">>} ELSE {}
    /\ UNCHANGED <<page, currentSettings>>
    /\ UNCHANGED <<cacheVars, apiVars, schedVars, parserVars, blockerVars, backgroundVars,
                   detectorVars, hashVars, pendingVars>>

\* Lines 137-161: the question is checked, hashed and looked up in the cache;
\* CacheManager.get resolves to the entry, or to null on a miss or a storage
\* failure. Without quiz ids the blocker is bypassed.
SolverCacheGet(fails) ==
    /\ scan.pc = "cache_get"
    /\ LET questionData == scan.quizQuestions[scan.i]
           questionHash == QuestionHash(questionData)
           cachedAnswer == CacheGetResult(cachedAnswers, questionHash, fails)
           log          == IF fails THEN errorLog \cup {<<scan.i, "CacheManager.get">>}
                           ELSE errorLog
           s            == [scan EXCEPT !.questionHash = questionHash,
                                        !.cachedAnswer = cachedAnswer,
                                        !.blockedAnswerSignatures = <<>>,
                                        !.filteredOptions = questionData.options,
                                        !.answerData = Null]
       IN  IF ~ValidQuestionData(questionData)
           THEN /\ marks' = [marks EXCEPT ![scan.i] = markQuestionAsSolved(@, "error")]
                /\ errorLog' = errorLog \cup {<<scan.i, "CourseraSolver">>}
                /\ Advance(scan)
                /\ tooltips' = tooltips \cup {<<scan.i, "error">>}
                /\ UNCHANGED <<rendered, reads, toasts>>
           ELSE IF scan.quizIds # Null
           THEN /\ scan' = [s EXCEPT !.pc = "blocker"]
                /\ errorLog' = log
                /\ UNCHANGED <<isSolverActive, marks, rendered, reads, toasts, tooltips>>
           ELSE Decide(s, <<>>, log)
    /\ UNCHANGED <<page, currentSettings, sentRequests>>
    /\ UNCHANGED <<cacheVars, apiVars, schedVars, parserVars, blockerVars, backgroundVars,
                   detectorVars, hashVars, pendingVars>>

\* Lines 157-184: SmartBlocker.getWrongAnswers resolves to a list.
SolverBlockerRead ==
    /\ scan.pc = "blocker"
    /\ \E blocked \in BlockerLists(scan.quizQuestions[scan.i]) :
           Decide(scan, blocked, errorLog)
    /\ UNCHANGED <<page, currentSettings, sentRequests>>
    /\ UNCHANGED <<cacheVars, apiVars, schedVars, parserVars, blockerVars, backgroundVars,
                   detectorVars, hashVars, pendingVars>>

\* Lines 215-253 up to the call of CacheManager.set: the delay, the message
\* to the background, and the handling of what comes back. A rejected
\* sendMessage is an exception: the catch of line 255 and the finally block.
SolverRequest(run, transport) ==
    /\ scan.pc = "request"
    /\ LET questionData == scan.quizQuestions[scan.i]
           payload      == serializableQuestionData(questionData, scan.filteredOptions)
           received     == Serialized(payload)
           response     == SolveQuestionRequest(received, run)
       IN  /\ sentRequests' = [sentRequests EXCEPT ![scan.i] =
                  [sent |-> TRUE, questionData |-> payload,
                   parsedAs |-> IF transport = "response" /\ ParserIsCalled(received, run)
                                THEN ParserMode(Prop(received, "questionType"))
                                ELSE "none"]]
           /\ IF transport = "rejects"
              THEN /\ scan' = [scan EXCEPT !.pc = "done"]
                   /\ isSolverActive' = FALSE
                   /\ errorLog' = errorLog \cup {<<scan.i, "detectAndSolveQuizzes">>}
                   /\ toasts' = toasts \cup {<<0, "error">>}
                   /\ UNCHANGED <<marks, rendered, tooltips>>
              ELSE IF transport = "undefined" \/ response.status # "success"
              THEN /\ marks' = [marks EXCEPT ![scan.i] = markQuestionAsSolved(@, "error")]
                   /\ scan' = [scan EXCEPT !.pc = "pause"]
                   /\ errorLog' = errorLog \cup {<<scan.i, "solve">>}
                   /\ tooltips' = tooltips \cup {<<scan.i, "error">>}
                   /\ UNCHANGED <<isSolverActive, rendered, toasts>>
              ELSE IF response.confidence < currentSettings.minConfidence /\ ~scan.forceSolve
              THEN /\ marks' = [marks EXCEPT ![scan.i] = markQuestionAsSolved(@, "warning")]
                   /\ scan' = [scan EXCEPT !.pc = "pause"]
                   /\ tooltips' = tooltips \cup {<<scan.i, "warning">>}
                   /\ UNCHANGED <<isSolverActive, rendered, toasts, errorLog>>
              ELSE /\ rendered' = [rendered EXCEPT ![scan.i] =
                                      [answers |-> response.answers,
                                       autoSelect |-> currentSettings.autoSolve,
                                       source |-> "solve"]]
                   /\ scan' = [scan EXCEPT !.pc = "cache_set",
                                           !.solvedCount = @ + 1,
                                           !.answerData =
                                               [answers |-> response.answers,
                                                explanation |-> response.explanation,
                                                confidence |-> response.confidence]]
                   /\ tooltips' = tooltips \cup {<<scan.i, "success">>}
                   /\ UNCHANGED <<isSolverActive, marks, toasts, errorLog>>
    /\ UNCHANGED <<page, currentSettings, reads>>
    /\ UNCHANGED <<cacheVars, apiVars, schedVars, parserVars, blockerVars, backgroundVars,
                   detectorVars, hashVars, pendingVars>>

\* Lines 245-246: CacheManager.set stores the bundle, or a storage failure is
\* logged and swallowed (cache_manager.js lines 61-64); then the question is
\* marked as solved.
SolverCacheSet(fails) ==
    /\ scan.pc = "cache_set"
    /\ cachedAnswers' = IF fails THEN cachedAnswers
                        ELSE CacheSetObject(cachedAnswers, CacheKey(scan), scan.answerData, now)
    /\ errorLog' = IF fails THEN errorLog \cup {<<scan.i, "CacheManager.set">>} ELSE errorLog
    /\ marks' = [marks EXCEPT ![scan.i] = markQuestionAsSolved(@, "success")]
    /\ scan' = [scan EXCEPT !.pc = "pause"]
    /\ UNCHANGED <<page, currentSettings, isSolverActive, rendered, sentRequests, toasts,
                   tooltips, reads>>
    /\ UNCHANGED <<now, wpc, wsnap, wpend, wkey, wres, nops>>
    /\ UNCHANGED <<apiVars, schedVars, parserVars, blockerVars, backgroundVars,
                   detectorVars, hashVars, pendingVars>>

\* Line 254: the pause between questions ends.
SolverPause ==
    /\ scan.pc = "pause"
    /\ Advance(scan)
    /\ UNCHANGED <<page, currentSettings, marks, rendered, sentRequests, toasts, tooltips,
                   reads, errorLog>>
    /\ UNCHANGED <<cacheVars, apiVars, schedVars, parserVars, blockerVars, backgroundVars,
                   detectorVars, hashVars, pendingVars>>

NextSolver ==
    \/ \E forceSolve \in BOOLEAN : SolverStart(forceSolve)
    \/ \E fails \in BOOLEAN : SolverCacheGet(fails)
    \/ SolverBlockerRead
    \/ \E run \in BackgroundRuns, transport \in Transports : SolverRequest(run, transport)
    \/ \E fails \in BOOLEAN : SolverCacheSet(fails)
    \/ SolverPause

InitSolver ==
    /\ page \in Pages
    /\ currentSettings \in SettingsChoices
    /\ cachedAnswers \in SolverStores
    /\ isSolverActive = FALSE
    /\ scan = NoScan
    /\ marks = <<>>
    /\ rendered = <<>>
    /\ sentRequests = <<>>
    /\ toasts = {}
    /\ tooltips = {}
    /\ reads = <<>>
    /\ errorLog = {}
    /\ WritersIdle
    /\ ApiIdle
    /\ SchedulerIdle
    /\ ParserIdle
    /\ BlockerIdle
    /\ BackgroundIdle
    /\ DetectorIdle
    /\ HashIdle
    /\ PendingIdle

SpecSolver == InitSolver /\ [][NextSolver]_vars

(***************************************************************************)
(* Claims about the solve pipeline                                         *)
(***************************************************************************)
\* Some answer of the cached bundle read for a question has its signature in
\* the blocker list read for that question.
CachedAnswerInBlockerList(r) ==
    \E k \in 1..Len(r.cachedAnswer.answers) :
        generateSignature(r.cachedAnswer.answers[k]) \in Range(r.blockedAnswerSignatures)

\* The request of question i has been sent, or is the next step of the scan.
RequestSentOrDue(i) ==
    sentRequests[i].sent \/ (scan.i = i /\ scan.pc = "request")

CacheHit(i) == reads[i].decided /\ reads[i].cachedAnswer # Null

\* C3: for a question whose hash is found in the cache, a solve request is
\* sent exactly when some cached answer's signature is in the blocker list
\* read for that question; otherwise the cached answers are rendered and no
\* request is sent for it.
C3_CacheHitRequestsIffBlocked ==
    \A i \in DOMAIN reads :
        CacheHit(i) =>
            IF CachedAnswerInBlockerList(reads[i])
            THEN RequestSentOrDue(i) /\ rendered[i].source # "cache"
            ELSE /\ ~RequestSentOrDue(i)
                 /\ rendered[i] = [answers |-> reads[i].cachedAnswer.answers,
                                   autoSelect |-> currentSettings.autoSolve,
                                   source |-> "cache"]

\* One scan met a cached answer that was blocked and sent the request for it,
\* and met a cached answer that was not blocked and rendered it.
C3_Witness ==
    /\ \E i \in DOMAIN reads :
           CacheHit(i) /\ CachedAnswerInBlockerList(reads[i]) /\ sentRequests[i].sent
    /\ \E j \in DOMAIN reads :
           /\ CacheHit(j) /\ ~CachedAnswerInBlockerList(reads[j])
           /\ Len(reads[j].blockedAnswerSignatures) > 0
           /\ rendered[j].source = "cache"

\* The options of question i as the detector found them, in payload form.
DetectedOptions(i) ==
    [k \in 1..Len(scan.quizQuestions[i].options) |->
        [text |-> scan.quizQuestions[i].options[k].text,
         value |-> scan.quizQuestions[i].options[k].value]]

\* The detected options of question i whose signature is not in the blocker
\* list read for it.
NotBlocked(i) ==
    SelectSeq(DetectedOptions(i), LAMBDA o :
        generateSignature(o.text) \notin Range(reads[i].blockedAnswerSignatures))

\* a is b without some of its elements, in the same order.
IsSubList(a, b) ==
    \E f \in [1..Len(a) -> 1..Len(b)] :
        /\ \A k \in 1..Len(a) : a[k] = b[f[k]]
        /\ \A k \in 1..(Len(a) - 1) : f[k] < f[k + 1]

\* C4: the option list of every solve request is a non-empty sub-list of the
\* detected options in their order: exactly the options whose signature is
\* not in the blocker list, or the full list when every option is blocked;
\* in that case a warning is shown and the question is not given up as an
\* error before its request.
C4_SentOptionsAreUnblocked ==
    /\ \A i \in DOMAIN sentRequests :
           sentRequests[i].sent =>
               LET sentOptions == sentRequests[i].questionData.options
               IN  /\ Len(sentOptions) > 0
                   /\ IsSubList(sentOptions, DetectedOptions(i))
                   /\ sentOptions = IF Len(NotBlocked(i)) = 0 THEN DetectedOptions(i)
                                    ELSE NotBlocked(i)
    /\ \A i \in DOMAIN reads :
           (reads[i].decided /\ Len(NotBlocked(i)) = 0) =>
               /\ <<i, "warning">> \in toasts
               /\ RequestSentOrDue(i)
               /\ ("gs-error" \in marks[i] => sentRequests[i].sent)

\* One scan sent a request with some options filtered out, and a request
\* with the full list because every option was blocked, which then succeeded.
C4_Witness ==
    /\ \E i \in DOMAIN sentRequests :
           /\ sentRequests[i].sent
           /\ Len(sentRequests[i].questionData.options) < Len(DetectedOptions(i))
    /\ \E j \in DOMAIN sentRequests :
           /\ sentRequests[j].sent
           /\ Len(NotBlocked(j)) = 0
           /\ "gs-success" \in marks[j]

\* The cache holds, under the hash of question i's text and detected
\* options, the bundle that was rendered for it.
CachedUnderOriginalHash(i) ==
    LET h == generateQuestionHash(scan.quizQuestions[i].question,
                                  scan.quizQuestions[i].options)
    IN  /\ h \in DOMAIN cachedAnswers
        /\ cachedAnswers[h].answers = rendered[i].answers
        /\ cachedAnswers[h].confidence >= currentSettings.minConfidence

\* C5 as stated: after every successful solve the answer bundle is in the
\* cache under the hash of the question text and the original options.
C5_SolvedAnswerIsCached ==
    \A i \in DOMAIN marks : "gs-success" \in marks[i] => CachedUnderOriginalHash(i)

\* C5, amended: after every successful solve the answer bundle is in the
\* cache under the hash of the question text and the original, unfiltered
\* options, unless the storage failed inside CacheManager.set and the failure
\* was logged.
C5_SolvedAnswerIsCachedUnlessStorageFails ==
    \A i \in DOMAIN marks :
        "gs-success" \in marks[i] =>
            \/ <<i, "CacheManager.set">> \in errorLog
            \/ CachedUnderOriginalHash(i)

\* A question solved from a filtered subset of its options is in the cache
\* under the hash of the original options.
C5_Witness ==
    \E i \in DOMAIN marks :
        /\ "gs-success" \in marks[i]
        /\ <<i, "CacheManager.set">> \notin errorLog
        /\ Len(sentRequests[i].questionData.options) < Len(DetectedOptions(i))
        /\ CachedUnderOriginalHash(i)

\* Question i has reached a final state: answers rendered, or a final mark.
Terminal(i) ==
    \/ rendered[i].source # "none"
    \/ marks[i] \cap {"gs-success", "gs-error", "gs-warning"} # {}

\* C6: a failure while solving one question marks that question as errored,
\* and every later question of the scan is still processed to a final state.
C6_FailureStaysInItsQuestion ==
    scan.pc = "done" =>
        \A i \in 1..Len(scan.quizQuestions) :
            /\ Terminal(i)
            /\ (sentRequests[i].sent /\ rendered[i].source = "none")
                   => marks[i] \cap {"gs-error", "gs-warning"} # {}

\* C8: the question type sent in a solve request, and the mode the reply is
\* parsed in, are the type the detector derived: 'multiple' exactly when some
\* option is a checkbox.
C8_SentTypeIsDetectedType ==
    \A i \in DOMAIN sentRequests :
        sentRequests[i].sent =>
            /\ sentRequests[i].questionData.questionType
                   = DetectedType(scan.quizQuestions[i].options)
            /\ sentRequests[i].parsedAs
                   \in {"none", DetectedType(scan.quizQuestions[i].options)}

(***************************************************************************)
(* Scheduling specification: the calls of detectAndSolveQuizzes in one     *)
(* tab, by initializeSolver, by the debounce timer of handleDOMChanges and *)
(* by the TRIGGER_SOLVER handler. A call is a number of awaits.            *)
(***************************************************************************)
MaxScans == 4
MaxAwaits == 2

\* Line 300: the debounce of handleDOMChanges.
DebounceMs == 1000

\* detectAndSolveQuizzes(forceSolve), up to its first await: the guards, the
\* flag, and with no question on the page the return of lines 118-121.
CallDetectAndSolve(forceSolve, settings, awaits) ==
    IF PassesGuards(forceSolve, settings)
    THEN /\ started' = started + 1
         /\ IF awaits = 0
            THEN /\ isSolverActive' = FALSE
                 /\ UNCHANGED inFlight
            ELSE /\ isSolverActive' = TRUE
                 /\ inFlight' = Append(inFlight, [forceSolve |-> forceSolve, left |-> awaits])
    ELSE UNCHANGED <<isSolverActive, inFlight, started>>

\* Lines 39-46: the settings arrive, the first scan is called, the observer
\* and the message listener are registered.
SchedInitialize(settings, awaits) ==
    /\ initPc = "loading"
    /\ initPc' = "ready"
    /\ currentSettings' = settings
    /\ CallDetectAndSolve(FALSE, settings, awaits)
    /\ UNCHANGED <<debounceArmed, debounceLeft, sinceBatch, lastReply>>
    /\ UNCHANGED <<cacheVars, apiVars, solverVars, parserVars, blockerVars, backgroundVars,
                   detectorVars, hashVars, pendingVars>>

\* A relevant batch that leaves the pending timer running.
DomChangeKeepsTimer ==
    /\ initPc = "ready"
    /\ debounceArmed' = TRUE
    /\ debounceLeft' = IF debounceArmed THEN debounceLeft ELSE DebounceMs
    /\ sinceBatch' = 0
    /\ UNCHANGED <<initPc, inFlight, started, lastReply>>
    /\ UNCHANGED <<cacheVars, apiVars, contentVars, solverVars, parserVars, blockerVars, backgroundVars,
                   detectorVars, hashVars, pendingVars>>

\* Lines 294-302: a batch of mutations with a relevant added node clears the
\* pending timer and sets a new one of 1000 ms.
DomChange ==
    /\ initPc = "ready"
    /\ debounceArmed' = TRUE
    /\ debounceLeft' = DebounceMs
    /\ sinceBatch' = 0
    /\ UNCHANGED <<initPc, inFlight, started, lastReply>>
    /\ UNCHANGED <<cacheVars, apiVars, contentVars, solverVars, parserVars, blockerVars, backgroundVars,
                   detectorVars, hashVars, pendingVars>>

\* The amounts of time that pass in one step.
ElapseSteps == {DebounceMs \div 2, DebounceMs}

\* Time passes while the timer is pending.
DebounceElapse(ms) ==
    /\ debounceArmed
    /\ debounceLeft > 0
    /\ debounceLeft' = IF ms < debounceLeft THEN debounceLeft - ms ELSE 0
    /\ sinceBatch' = Min(sinceBatch + ms, DebounceMs)
    /\ UNCHANGED <<initPc, debounceArmed, inFlight, started, lastReply>>
    /\ UNCHANGED <<cacheVars, apiVars, contentVars, solverVars, parserVars, blockerVars, backgroundVars,
                   detectorVars, hashVars, pendingVars>>

\* Lines 298-301: the timer fires and calls the scan unless one is active.
DebounceFire(awaits) ==
    /\ debounceArmed
    /\ debounceLeft = 0
    /\ started < MaxScans
    /\ debounceArmed' = FALSE
    /\ IF ~isSolverActive
       THEN CallDetectAndSolve(FALSE, currentSettings, awaits)
       ELSE UNCHANGED <<isSolverActive, inFlight, started>>
    /\ UNCHANGED <<initPc, debounceLeft, sinceBatch, lastReply, currentSettings>>
    /\ UNCHANGED <<cacheVars, apiVars, solverVars, parserVars, blockerVars, backgroundVars,
                   detectorVars, hashVars, pendingVars>>

\* Lines 76-93: TRIGGER_SOLVER arrives; the scan is called with forceSolve,
\* or the reply is 'info' because a scan is active.
ManualTrigger(awaits) ==
    /\ initPc = "ready"
    /\ started < MaxScans
    /\ IF HandlerMayStart(isSolverActive)
       THEN /\ CallDetectAndSolve(TRUE, currentSettings, awaits)
            /\ lastReply' = IF awaits = 0 THEN "success" ELSE "pending"
       ELSE /\ lastReply' = "info"
            /\ UNCHANGED <<isSolverActive, inFlight, started>>
    /\ UNCHANGED <<initPc, debounceArmed, debounceLeft, sinceBatch, currentSettings>>
    /\ UNCHANGED <<cacheVars, apiVars, solverVars, parserVars, blockerVars, backgroundVars,
                   detectorVars, hashVars, pendingVars>>

\* A running call whose exception leaves the flag as it is.
ScanResumeKeepsFlagOnThrow(k, throws) ==
    /\ k \in 1..Len(inFlight)
    /\ IF inFlight[k].left > 1 /\ ~throws
       THEN /\ inFlight' = [inFlight EXCEPT ![k].left = @ - 1]
            /\ UNCHANGED <<isSolverActive, lastReply>>
       ELSE /\ inFlight' = [j \in 1..(Len(inFlight) - 1) |->
                               IF j < k THEN inFlight[j] ELSE inFlight[j + 1]]
            /\ isSolverActive' = (throws /\ isSolverActive)
            /\ lastReply' = IF inFlight[k].forceSolve /\ lastReply = "pending"
                            THEN "success" ELSE lastReply
    /\ UNCHANGED <<initPc, debounceArmed, debounceLeft, sinceBatch, started, currentSettings>>
    /\ UNCHANGED <<cacheVars, apiVars, solverVars, parserVars, blockerVars, backgroundVars,
                   detectorVars, hashVars, pendingVars>>

\* The k-th running call resumes after an await: it goes on to its next
\* await, or it ends (normally or by an exception) and the finally block of
\* lines 258-259 clears the flag.
ScanResume(k, throws) ==
    /\ k \in 1..Len(inFlight)
    /\ IF inFlight[k].left > 1 /\ ~throws
       THEN /\ inFlight' = [inFlight EXCEPT ![k].left = @ - 1]
            /\ UNCHANGED <<isSolverActive, lastReply>>
       ELSE /\ inFlight' = [j \in 1..(Len(inFlight) - 1) |->
                               IF j < k THEN inFlight[j] ELSE inFlight[j + 1]]
            /\ isSolverActive' = FALSE
            /\ lastReply' = IF inFlight[k].forceSolve /\ lastReply = "pending"
                            THEN "success" ELSE lastReply
    /\ UNCHANGED <<initPc, debounceArmed, debounceLeft, sinceBatch, started, currentSettings>>
    /\ UNCHANGED <<cacheVars, apiVars, solverVars, parserVars, blockerVars, backgroundVars,
                   detectorVars, hashVars, pendingVars>>

NextSched ==
    \/ \E settings \in SettingsChoices, awaits \in 0..MaxAwaits :
           SchedInitialize(settings, awaits)
    \/ DomChange
    \/ \E ms \in ElapseSteps : DebounceElapse(ms)
    \/ \E awaits \in 0..MaxAwaits : DebounceFire(awaits)
    \/ \E awaits \in 0..MaxAwaits : ManualTrigger(awaits)
    \/ \E k \in 1..MaxScans, throws \in BOOLEAN : ScanResume(k, throws)

InitSched ==
    /\ ContentIdle
    /\ SchedulerIdle
    /\ ParserIdle
    /\ BlockerIdle
    /\ BackgroundIdle
    /\ DetectorIdle
    /\ HashIdle
    /\ PendingIdle
    /\ SolverIdle
    /\ cachedAnswers = EmptyObject
    /\ WritersIdle
    /\ ApiIdle

SpecSched == InitSched /\ [][NextSched]_vars

(***************************************************************************)
(* Claims about scheduling                                                 *)
(***************************************************************************)
\* C7: at most one scan is in flight, for every interleaving of the initial
\* scan, the debounced scans and manual triggers; a manual trigger starts a
\* scan when none is active, also with auto-solve off, and starts none while
\* a scan is active.
C7_AtMostOneScanInFlight ==
    /\ [](Len(inFlight) <= 1)
    /\ [][\A awaits \in 0..MaxAwaits :
              ManualTrigger(awaits) =>
                  IF isSolverActive \/ Len(inFlight) > 0
                  THEN UNCHANGED <<inFlight, started>>
                  ELSE /\ started' = started + 1
                       /\ Len(inFlight') = (IF awaits = 0 THEN 0 ELSE 1)]_vars

\* With auto-solve off a manually triggered scan is in flight, a debounce
\* timer is pending, and a second trigger has been refused.
C7_Witness ==
    /\ ~currentSettings.autoSolve
    /\ Len(inFlight) = 1
    /\ inFlight[1].forceSolve
    /\ debounceArmed
    /\ lastReply = "info"

\* C23: the debounce timer starts a scan only when 1000 ms have passed since
\* the last relevant mutation batch, and only if no scan is active when it
\* fires; while a scan is active the firing timer starts none.
C23_DebouncedScanWaitsForQuietSecond ==
    [][\A awaits \in 0..MaxAwaits :
           DebounceFire(awaits) =>
               /\ started' # started => sinceBatch >= DebounceMs /\ ~isSolverActive
               /\ isSolverActive => UNCHANGED <<inFlight, started>>]_vars

\* No manual trigger was made: the initial scan has ended and a debounced
\* scan has started, a full second after the last relevant batch.
C23_Witness ==
    /\ lastReply = "none"
    /\ started = 2
    /\ Len(inFlight) = 1
    /\ ~debounceArmed
    /\ sinceBatch = DebounceMs

(***************************************************************************)
(* Parser specification: one call of                                       *)
(* ResponseParser.parseGeminiQuizResponse(geminiResponse, options,         *)
(* questionType) on replies, option lists and question types drawn from    *)
(* the sets below.                                                         *)
(***************************************************************************)
\* 'B'
ReplyB == <<66>>

\* 'b'
ReplyLowerB == <<98>>

\* 'A, C'
ReplyAC == <<65, 44, 32, 67>>

\* 'A, A, C'
ReplyAAC == <<65, 44, 32, 65, 44, 32, 67>>

\* 'The answer is C.'
ReplyTheAnswerIsC == <<84, 104, 101, 32, 97, 110, 115, 119, 101, 114, 32, 105, 115, 32, 67, 46>>

\* 'B\n\nExplanation: because A'
ReplyBExplained == <<66, 10, 10, 69, 120, 112, 108, 97, 110, 97, 116, 105, 111, 110, 58, 32, 98, 101, 99, 97, 117, 115, 101, 32, 65>>

\* 'I think paris'
ReplyThinkParis == <<73, 32, 116, 104, 105, 110, 107, 32, 112, 97, 114, 105, 115>>

\* '?'
ReplyQuestionMark == <<63>>

\* 'Correct: A'
ReplyCorrectA == <<67, 111, 114, 114, 101, 99, 116, 58, 32, 65>>

\* 'D'
ReplyD == <<68>>

\* 'EXPLANATION: B'
ReplyUpperMarker == <<69, 88, 80, 76, 65, 78, 65, 84, 73, 79, 78, 58, 32, 66>>

\* 'C explanation: x Explanation: A'
ReplyTwoMarkers == <<67, 32, 101, 120, 112, 108, 97, 110, 97, 116, 105, 111, 110, 58, 32, 120, 32, 69, 120, 112, 108, 97, 110, 97, 116, 105, 111, 110, 58, 32, 65>>

\* 'two and four'
ReplyTwoAndFour == <<116, 119, 111, 32, 97, 110, 100, 32, 102, 111, 117, 114>>

\* '  '
ReplyBlank == <<32, 32>>

\* 'Option b. explanation:'
ReplyOptionB == <<79, 112, 116, 105, 111, 110, 32, 98, 46, 32, 101, 120, 112, 108, 97, 110, 97, 116, 105, 111, 110, 58>>

\* 'A,'
ReplyACommaPart == <<65, 44>>

\* 'C'
ReplyC == <<67>>

\* A part of a candidate's content that carries text.
TextPart(t) == [text |-> t]

\* A part without a text property.
DataPart == [inlineData |-> "image"]

\* A candidate whose content holds the given parts.
Candidate(parts) == [content |-> [parts |-> parts]]

\* A candidate without content, as returned for a blocked generation.
BlockedCandidate == [finishReason |-> "SAFETY"]

\* A response with one candidate of one text part.
TextResponse(t) == [candidates |-> <<Candidate(<<TextPart(t)>>)>>]

ReplyTextChoices ==
    {ReplyB, ReplyLowerB, ReplyAC, ReplyAAC, ReplyTheAnswerIsC, ReplyBExplained,
     ReplyThinkParis, ReplyQuestionMark, ReplyCorrectA, ReplyD, ReplyUpperMarker,
     ReplyTwoMarkers, ReplyTwoAndFour, ReplyBlank, ReplyOptionB}

\* The values of the geminiResponse argument.
GeminiResponses ==
    {TextResponse(t) : t \in ReplyTextChoices}
    \cup {Null,
          [promptFeedback |-> "blocked"],
          [candidates |-> <<>>],
          [candidates |-> <<BlockedCandidate>>],
          [candidates |-> <<Candidate(<<DataPart>>)>>],
          [candidates |-> <<Candidate(<<TextPart(<<>>), TextPart(ReplyB)>>)>>],
          [candidates |-> <<Candidate(<<TextPart(ReplyACommaPart), TextPart(ReplyC)>>)>>],
          [candidates |-> <<Candidate(<<TextPart(ReplyB)>>), Candidate(<<TextPart(ReplyAC)>>)>>]}

\* The option of a message payload: its text and its value.
SentOption(text, value) == [text |-> text, value |-> value]

\* "Lyon", "Paris", "paris!"
CapitalOptions ==
    <<SentOption(<<76, 121, 111, 110>>, "lyon"),
      SentOption(<<80, 97, 114, 105, 115>>, "paris"),
      SentOption(<<112, 97, 114, 105, 115, 33>>, "paris2")>>

\* "Alpha", "Beta", "Gamma", "Delta"
GreekOptions ==
    <<SentOption(<<65, 108, 112, 104, 97>>, "alpha"),
      SentOption(<<66, 101, 116, 97>>, "beta"),
      SentOption(<<71, 97, 109, 109, 97>>, "gamma"),
      SentOption(<<68, 101, 108, 116, 97>>, "delta")>>

\* "Two", "Four"
PrimeOptions ==
    <<SentOption(<<84, 119, 111>>, "two"),
      SentOption(<<70, 111, 117, 114>>, "four")>>

\* The values of the options argument.
OptionLists == {CapitalOptions, GreekOptions, PrimeOptions, <<>>}

\* The values of the questionType argument.
QuestionTypes == {"single", "multiple", Undefined}

\* Line 25: the response is missing, has no candidates array or an empty one.
HasNoCandidate(geminiResponse) ==
    \/ geminiResponse = Null
    \/ "candidates" \notin DOMAIN geminiResponse
    \/ Len(geminiResponse.candidates) = 0

\* Lines 31-39: the texts of the parts that have one, joined by a blank and trimmed.
responseTextOf(candidate) ==
    IF "content" \in DOMAIN candidate
    THEN LET parts    == candidate.content.parts
             withText == SelectSeq(parts, LAMBDA part :
                             "text" \in DOMAIN part /\ Len(part.text) > 0)
         IN  Trim(Join([k \in 1..Len(withText) |-> withText[k].text], <<32>>))
    ELSE <<>>

\* The result of a call that threw.
ParseThrows == [throws |-> TRUE, answers |-> <<>>, explanation |-> <<>>, confidence |-> 0]

\* Lines 24-148 on the whole geminiResponse object.
parseGeminiResponse(geminiResponse, options, questionType) ==
    IF HasNoCandidate(geminiResponse)
    THEN ParseThrows
    ELSE parseGeminiQuizResponse(responseTextOf(geminiResponse.candidates[1]),
                                 options, questionType)

\* The call of line 150 of background.js.
ParserCall ==
    /\ parseOut = <<>>
    /\ parseOut' = <<parseGeminiResponse(parseIn.geminiResponse, parseIn.options,
                                         parseIn.questionType)>>
    /\ UNCHANGED parseIn
    /\ UNCHANGED <<cacheVars, apiVars, contentVars, solverVars, schedVars,
                   blockerVars, backgroundVars,
                   detectorVars, hashVars, pendingVars>>

NextParser == ParserCall

InitParser ==
    /\ parseIn \in [geminiResponse : GeminiResponses, options : OptionLists,
                    questionType : QuestionTypes]
    /\ parseOut = <<>>
    /\ WritersIdle
    /\ cachedAnswers = EmptyObject
    /\ ApiIdle
    /\ ContentIdle
    /\ SolverIdle
    /\ SchedulerIdle
    /\ BlockerIdle
    /\ BackgroundIdle
    /\ DetectorIdle
    /\ HashIdle
    /\ PendingIdle

SpecParser == InitParser /\ [][NextParser]_vars

(***************************************************************************)
(* SmartBlocker specification: sequential calls of addWrongAnswer,         *)
(* getWrongAnswers and clearWrongAnswers (src/utils/smart_blocker.js) on   *)
(* the object kept in chrome.storage.sync.  Identifiers and signatures are *)
(* strings; "" and undefined are the falsy ones.                           *)
(***************************************************************************)
MaxBlockerCalls == 3

\* !x for a string argument.
IsMissing(x) == x = "" \/ x = Undefined

CourseIdArgs == {"course", Undefined}

QuizIdArgs == {"quiz1", "quiz2", ""}

QuestionSignatureArgs == {"-1001", "2002", ""}

WrongAnswerSignatureArgs == {"301", "-402", ""}

\* Whether chrome.storage.sync rejects the read or the write of a call.
StorageFailures == {"none", "get", "set"}

\* Line 62: `${courseId}_${quizId}`.
quizSpecificKey(courseId, quizId) == courseId \o "_" \o quizId

\* Line 55 with every parameter tested but the last.
MissingParametersButAnswer(courseId, quizId, questionSignature, wrongAnswerSignature) ==
    IsMissing(courseId) \/ IsMissing(quizId) \/ IsMissing(questionSignature)

\* Line 55: some parameter of addWrongAnswer is falsy.
MissingParameters(courseId, quizId, questionSignature, wrongAnswerSignature) ==
    \/ IsMissing(courseId)
    \/ IsMissing(quizId)
    \/ IsMissing(questionSignature)
    \/ IsMissing(wrongAnswerSignature)

\* storedData[quizSpecificKey] || {}
QuizDataOf(storedData, key) ==
    IF key \in DOMAIN storedData THEN storedData[key] ELSE EmptyObject

\* quizData[questionSignature] || []
WrongAnswersOf(quizData, questionSignature) ==
    IF questionSignature \in DOMAIN quizData THEN quizData[questionSignature] ELSE <<>>

\* Lines 69-70 without the includes test.
PushedWrongAnswersAlways(questionWrongAnswers, wrongAnswerSignature) ==
    Append(questionWrongAnswers, wrongAnswerSignature)

\* Lines 69-70: the list after the push, which an included signature skips.
PushedWrongAnswers(questionWrongAnswers, wrongAnswerSignature) ==
    IF wrongAnswerSignature \in Range(questionWrongAnswers)
    THEN questionWrongAnswers
    ELSE Append(questionWrongAnswers, wrongAnswerSignature)

\* obj with obj[key] = value.
WithProperty(obj, key, value) ==
    [k \in DOMAIN obj \cup {key} |-> IF k = key THEN value ELSE obj[k]]

\* Lines 65-73: storedData as written back by addWrongAnswer.
StoredDataAfterAdd(storedData, courseId, quizId, questionSignature, wrongAnswerSignature) ==
    LET key      == quizSpecificKey(courseId, quizId)
        quizData == QuizDataOf(storedData, key)
        list     == PushedWrongAnswers(WrongAnswersOf(quizData, questionSignature),
                                       wrongAnswerSignature)
    IN  WithProperty(storedData, key, WithProperty(quizData, questionSignature, list))

\* The record of a finished call.
BlockerCall(op, args, outcome, result) ==
    <<[op |-> op, args |-> args, outcome |-> outcome, result |-> result]>>

\* SmartBlocker.addWrongAnswer, lines 54-80.
AddWrongAnswer(courseId, quizId, questionSignature, wrongAnswerSignature, fails) ==
    LET args == <<courseId, quizId, questionSignature, wrongAnswerSignature>>
        list == WrongAnswersOf(QuizDataOf(blockerData, quizSpecificKey(courseId, quizId)),
                               questionSignature)
    IN  /\ blockerCalls < MaxBlockerCalls
        /\ blockerCalls' = blockerCalls + 1
        /\ IF MissingParameters(courseId, quizId, questionSignature, wrongAnswerSignature)
           THEN /\ blockerLast' = BlockerCall("add", args, "rejected", <<>>)
                /\ UNCHANGED blockerData
           ELSE IF fails = "get"
           THEN /\ blockerLast' = BlockerCall("add", args, "failed", <<>>)
                /\ UNCHANGED blockerData
           ELSE IF PushedWrongAnswers(list, wrongAnswerSignature) = list
           THEN /\ blockerLast' = BlockerCall("add", args, "already", <<>>)
                /\ UNCHANGED blockerData
           ELSE IF fails = "set"
           THEN /\ blockerLast' = BlockerCall("add", args, "failed", <<>>)
                /\ UNCHANGED blockerData
           ELSE /\ blockerLast' = BlockerCall("add", args, "added", <<>>)
                /\ blockerData' = StoredDataAfterAdd(blockerData, courseId, quizId,
                                                     questionSignature, wrongAnswerSignature)
        /\ UNCHANGED <<cacheVars, apiVars, contentVars, solverVars, schedVars,
                       parserVars, backgroundVars,
                       detectorVars, hashVars, pendingVars>>

\* SmartBlocker.getWrongAnswers, lines 90-107.
GetWrongAnswers(courseId, quizId, questionSignature, fails) ==
    LET args == <<courseId, quizId, questionSignature>>
    IN  /\ blockerCalls < MaxBlockerCalls
        /\ blockerCalls' = blockerCalls + 1
        /\ blockerLast' =
               IF IsMissing(courseId) \/ IsMissing(quizId) \/ IsMissing(questionSignature)
               THEN BlockerCall("get", args, "rejected", <<>>)
               ELSE IF fails = "get"
               THEN BlockerCall("get", args, "failed", <<>>)
               ELSE BlockerCall("get", args, "returned",
                        WrongAnswersOf(QuizDataOf(blockerData, quizSpecificKey(courseId, quizId)),
                                       questionSignature))
        /\ UNCHANGED blockerData
        /\ UNCHANGED <<cacheVars, apiVars, contentVars, solverVars, schedVars,
                       parserVars, backgroundVars,
                       detectorVars, hashVars, pendingVars>>

\* SmartBlocker.clearWrongAnswers, lines 115-136.
ClearWrongAnswers(courseId, quizId, fails) ==
    LET args == <<courseId, quizId>>
        key  == quizSpecificKey(courseId, quizId)
    IN  /\ blockerCalls < MaxBlockerCalls
        /\ blockerCalls' = blockerCalls + 1
        /\ IF ~IsMissing(courseId) /\ ~IsMissing(quizId)
           THEN IF fails = "get"
                THEN /\ blockerLast' = BlockerCall("clear", args, "failed", <<>>)
                     /\ UNCHANGED blockerData
                ELSE IF key \notin DOMAIN blockerData
                THEN /\ blockerLast' = BlockerCall("clear", args, "nothing", <<>>)
                     /\ UNCHANGED blockerData
                ELSE IF fails = "set"
                THEN /\ blockerLast' = BlockerCall("clear", args, "failed", <<>>)
                     /\ UNCHANGED blockerData
                ELSE /\ blockerLast' = BlockerCall("clear", args, "cleared", <<>>)
                     /\ blockerData' = [k \in DOMAIN blockerData \ {key} |-> blockerData[k]]
           ELSE IF fails = "set"
                THEN /\ blockerLast' = BlockerCall("clear", args, "failed", <<>>)
                     /\ UNCHANGED blockerData
                ELSE /\ blockerLast' = BlockerCall("clear", args, "cleared", <<>>)
                     /\ blockerData' = EmptyObject
        /\ UNCHANGED <<cacheVars, apiVars, contentVars, solverVars, schedVars,
                       parserVars, backgroundVars,
                       detectorVars, hashVars, pendingVars>>

NextBlocker ==
    \/ \E courseId \in CourseIdArgs, quizId \in QuizIdArgs,
          questionSignature \in QuestionSignatureArgs,
          wrongAnswerSignature \in WrongAnswerSignatureArgs, fails \in StorageFailures :
           AddWrongAnswer(courseId, quizId, questionSignature, wrongAnswerSignature, fails)
    \/ \E courseId \in CourseIdArgs, quizId \in QuizIdArgs,
          questionSignature \in QuestionSignatureArgs, fails \in StorageFailures :
           GetWrongAnswers(courseId, quizId, questionSignature, fails)
    \/ \E courseId \in CourseIdArgs, quizId \in QuizIdArgs, fails \in StorageFailures :
           ClearWrongAnswers(courseId, quizId, fails)

InitBlocker ==
    /\ BlockerIdle
    /\ WritersIdle
    /\ cachedAnswers = EmptyObject
    /\ ApiIdle
    /\ ContentIdle
    /\ SolverIdle
    /\ SchedulerIdle
    /\ ParserIdle
    /\ BackgroundIdle
    /\ DetectorIdle
    /\ HashIdle
    /\ PendingIdle

SpecBlocker == InitBlocker /\ [][NextBlocker]_vars

(***************************************************************************)
(* Background specification: one SOLVE_QUESTION_REQUEST handled by the     *)
(* listener of src/background/background.js, lines 116-178, with the       *)
(* request loop of ApiClient.callGeminiApi running inside it.              *)
(***************************************************************************)
\* prompt_builder.js line 22 without the test of the option count.
InvalidQuestionDataIgnoringOptions(questionData) ==
    \/ questionData = Null
    \/ Len(questionData.question) = 0

\* prompt_builder.js line 22: the data buildQuizPrompt refuses.
InvalidQuestionData(questionData) ==
    \/ questionData = Null
    \/ Len(questionData.question) = 0
    \/ Len(questionData.options) = 0

\* The prompt with the first option under the letter B.
buildQuizPromptLabelsFromB(questionData, includeExplanation) ==
    IF InvalidQuestionData(questionData)
    THEN [throws |-> TRUE, optionLines |-> <<>>, format |-> "none", explanation |-> FALSE]
    ELSE [throws |-> FALSE,
          optionLines |-> [i \in 1..Len(questionData.options) |->
                              <<65 + i, 46, 32>> \o questionData.options[i].text],
          format |-> IF Prop(questionData, "questionType") = "multiple"
                     THEN "letters" ELSE "letter",
          explanation |-> includeExplanation]

\* PromptBuilder.buildQuizPrompt: the option lines "A. text", the answer
\* format asked for and whether an explanation is asked for.
buildQuizPrompt(questionData, includeExplanation) ==
    IF InvalidQuestionData(questionData)
    THEN [throws |-> TRUE, optionLines |-> <<>>, format |-> "none", explanation |-> FALSE]
    ELSE [throws |-> FALSE,
          optionLines |-> [i \in 1..Len(questionData.options) |->
                              <<64 + i, 46, 32>> \o questionData.options[i].text],
          format |-> IF Prop(questionData, "questionType") = "multiple"
                     THEN "letters" ELSE "letter",
          explanation |-> includeExplanation]

\* The payload of a request: question text, options and question type.
SentQuestion(question, options, questionType) ==
    [question |-> question, options |-> options, questionType |-> questionType]

\* The questionData values of the requests: the capital question with all
\* its options and without the first one, the Greek letters as a checkbox
\* question, and the data buildQuizPrompt refuses.
SentQuestions ==
    {SentQuestion(CapitalQuestion.question, CapitalOptions, "single"),
     SentQuestion(CapitalQuestion.question, SubSeq(CapitalOptions, 2, 3), "single"),
     SentQuestion(PrimesQuestion.question, GreekOptions, "multiple"),
     SentQuestion(<<>>, CapitalOptions, "single"),
     SentQuestion(PrimesQuestion.question, <<>>, "multiple"),
     Null}

\* What chrome.storage.sync holds under geminiApiKey: nothing, '' or a key.
StoredApiKeys == {Undefined, "", "AIza"}

\* Which StorageManager.get of the handler rejects, if any.
BackgroundStorage == {"ok", "keyFails", "settingsFails"}

\* A request as the handler meets it.
BackgroundMessages ==
    [apiKey : StoredApiKeys, storage : BackgroundStorage,
     showExplanations : BOOLEAN, questionData : SentQuestions]

ErrorResponse(message) == <<[status |-> "error", message |-> message]>>

\* The listener is entered with a SOLVE_QUESTION_REQUEST (lines 116-126).
BgReceive(message) ==
    /\ bgPc = "idle"
    /\ bgPc' = "received"
    /\ bgMsg' = <<message>>
    /\ UNCHANGED <<bgReply, bgPrompt, bgResponse>>
    /\ UNCHANGED <<cacheVars, apiVars, contentVars, solverVars, schedVars,
                   parserVars, blockerVars,
                   detectorVars, hashVars, pendingVars>>

\* Lines 127-135: the API key is read; without one the handler answers.
BgReadKey ==
    /\ bgPc = "received"
    /\ IF bgMsg[1].storage = "keyFails"
       THEN /\ bgPc' = "replied"
            /\ bgReply' = ErrorResponse("Failed to retrieve data")
       ELSE IF IsMissing(bgMsg[1].apiKey)
       THEN /\ bgPc' = "replied"
            /\ bgReply' = ErrorResponse("Gemini API Key not found")
       ELSE /\ bgPc' = "settings"
            /\ UNCHANGED bgReply
    /\ UNCHANGED <<bgMsg, bgPrompt, bgResponse>>
    /\ UNCHANGED <<cacheVars, apiVars, contentVars, solverVars, schedVars,
                   parserVars, blockerVars,
                   detectorVars, hashVars, pendingVars>>

\* Lines 137-146: the settings are read and the prompt is built;
\* callGeminiApi is entered when buildQuizPrompt returned.
BgBuildPrompt ==
    /\ bgPc = "settings"
    /\ IF bgMsg[1].storage = "settingsFails"
       THEN /\ bgPc' = "replied"
            /\ bgReply' = ErrorResponse("Failed to retrieve data")
            /\ UNCHANGED bgPrompt
       ELSE IF buildQuizPrompt(bgMsg[1].questionData, bgMsg[1].showExplanations).throws
       THEN /\ bgPc' = "replied"
            /\ bgReply' = ErrorResponse("Invalid question data for prompt construction.")
            /\ UNCHANGED bgPrompt
       ELSE /\ bgPc' = "calling"
            /\ bgPrompt' = <<buildQuizPrompt(bgMsg[1].questionData, bgMsg[1].showExplanations)>>
            /\ UNCHANGED bgReply
    /\ UNCHANGED <<bgMsg, bgResponse>>
    /\ UNCHANGED <<cacheVars, apiVars, contentVars, solverVars, schedVars,
                   parserVars, blockerVars,
                   detectorVars, hashVars, pendingVars>>

\* Line 146: a step of the running callGeminiApi.
BgApiStep ==
    /\ bgPc = "calling"
    /\ NextApi

\* The handler without its catch block: an error of callGeminiApi is left
\* unanswered.
BgSettleWithoutCatch(text) ==
    /\ bgPc = "calling"
    /\ apiPc = "returned"
    /\ bgPc' = "replied"
    /\ bgReply' =
           IF apiPc = "thrown" THEN ErrorResponse(apiErr.message)
           ELSE LET parsedResult == parseGeminiResponse(TextResponse(text),
                                        bgMsg[1].questionData.options,
                                        bgMsg[1].questionData.questionType)
                IN  IF parsedResult.throws
                    THEN ErrorResponse("Failed to extract any valid answer")
                    ELSE IF Len(parsedResult.answers) = 0
                    THEN ErrorResponse("Could not parse valid answers from Gemini response.")
                    ELSE <<[status |-> "success", answers |-> parsedResult.answers,
                            explanation |-> parsedResult.explanation,
                            confidence |-> parsedResult.confidence]>>
    /\ bgResponse' = IF apiPc = "thrown" THEN <<>> ELSE <<text>>
    /\ UNCHANGED <<bgMsg, bgPrompt>>
    /\ UNCHANGED <<cacheVars, apiVars, contentVars, solverVars, schedVars,
                   parserVars, blockerVars,
                   detectorVars, hashVars, pendingVars>>

\* Lines 146-176: callGeminiApi has settled; its error is answered, or its
\* response is parsed and the result answered.
BgSettle(text) ==
    /\ bgPc = "calling"
    /\ apiPc \in {"returned", "thrown"}
    /\ bgPc' = "replied"
    /\ bgReply' =
           IF apiPc = "thrown" THEN ErrorResponse(apiErr.message)
           ELSE LET parsedResult == parseGeminiResponse(TextResponse(text),
                                        bgMsg[1].questionData.options,
                                        bgMsg[1].questionData.questionType)
                IN  IF parsedResult.throws
                    THEN ErrorResponse("Failed to extract any valid answer")
                    ELSE IF Len(parsedResult.answers) = 0
                    THEN ErrorResponse("Could not parse valid answers from Gemini response.")
                    ELSE <<[status |-> "success", answers |-> parsedResult.answers,
                            explanation |-> parsedResult.explanation,
                            confidence |-> parsedResult.confidence]>>
    /\ bgResponse' = IF apiPc = "thrown" THEN <<>> ELSE <<text>>
    /\ UNCHANGED <<bgMsg, bgPrompt>>
    /\ UNCHANGED <<cacheVars, apiVars, contentVars, solverVars, schedVars,
                   parserVars, blockerVars,
                   detectorVars, hashVars, pendingVars>>

NextBackground ==
    \/ \E message \in BackgroundMessages : BgReceive(message)
    \/ BgReadKey
    \/ BgBuildPrompt
    \/ BgApiStep
    \/ \E text \in ReplyTexts : BgSettle(text)

InitBackground ==
    /\ BackgroundIdle
    /\ DetectorIdle
    /\ HashIdle
    /\ PendingIdle
    /\ ApiIdle
    /\ WritersIdle
    /\ cachedAnswers = EmptyObject
    /\ ContentIdle
    /\ SolverIdle
    /\ SchedulerIdle
    /\ ParserIdle
    /\ BlockerIdle

SpecBackground == InitBackground /\ [][NextBackground]_vars

(***************************************************************************)
(* Storage specification: a scan of detectAndSolveQuizzes while the popup  *)
(* clears the cache (part_009 line 206), with any storage failure.         *)
(***************************************************************************)
\* CacheManager.clearCache called from the popup during a scan.
PopupClearCache(fails) == CacheClear(1, fails)

NextStorage ==
    \/ NextSolver
    \/ \E fails \in BOOLEAN : PopupClearCache(fails)

SpecStorage == InitSolver /\ [][NextStorage]_vars

\* The storage read of the running question failed in this step.
GetFailsNow ==
    /\ SolverCacheGet(TRUE)
    /\ ValidQuestionData(scan.quizQuestions[scan.i])

\* The scan was aborted by an exception in this step.
ScanAbortedNow ==
    \/ <<0, "error">> \in toasts' \ toasts
    \/ \E e \in errorLog' \ errorLog : e[2] = "detectAndSolveQuizzes"

\* C21: when the storage fails, CacheManager.get yields a miss and
\* CacheManager.set and clearCache complete; the failure neither marks the
\* question as an error nor stops the scan.
C21_StorageFailureNeverBlocksSolving ==
    [][/\ GetFailsNow =>
              /\ scan'.cachedAnswer = Null
              /\ "gs-error" \notin marks'[scan.i]
              /\ ~ScanAbortedNow
              /\ scan'.pc \in {"blocker", "request"}
       /\ SolverCacheSet(TRUE) =>
              /\ cachedAnswers' = cachedAnswers
              /\ "gs-error" \notin marks'[scan.i]
              /\ "gs-success" \in marks'[scan.i]
              /\ ~ScanAbortedNow
              /\ scan'.pc = "pause"
       /\ PopupClearCache(TRUE) =>
              /\ cachedAnswers' = cachedAnswers
              /\ scan' = scan
              /\ marks' = marks
              /\ ~ScanAbortedNow]_vars

\* The read of an entry that the store holds failed, the question went on to
\* the request and was solved.
C21_Witness ==
    /\ scan.pc = "pause"
    /\ <<scan.i, "CacheManager.get">> \in errorLog
    /\ scan.questionHash \in DOMAIN cachedAnswers
    /\ sentRequests[scan.i].sent
    /\ "gs-success" \in marks[scan.i]

(***************************************************************************)
(* Claims about the parser                                                 *)
(***************************************************************************)
\* The call has been made.
ParseDone == parseOut # <<>>

\* The call returned a result.
ParseReturned == ParseDone /\ ~parseOut[1].throws

\* The text of the first candidate, empty when there is none.
ParsedText ==
    IF HasNoCandidate(parseIn.geminiResponse) THEN <<>>
    ELSE responseTextOf(parseIn.geminiResponse.candidates[1])

\* The options whose text occurs in the reply, ignoring case.
ContainedOptions ==
    {i \in 1..Len(parseIn.options) :
        Includes(ToLowerCase(ParsedText), ToLowerCase(parseIn.options[i].text))}

\* C13: in single mode a parse that returns has exactly one answer, whether
\* it comes from the letters or from the text match.
C13_SingleModeOneAnswer ==
    (ParseReturned /\ parseIn.questionType = "single")
        => Len(parseOut[1].answers) = 1

\* A single-mode parse returned on a reply that contains the texts of two options.
C13_Witness ==
    /\ ParseReturned
    /\ parseIn.questionType = "single"
    /\ Cardinality(ContainedOptions) >= 2
    /\ Len(parseOut[1].answers) = 1

\* The character is a capital letter that names one of the options passed in.
NamesOption(c) == c >= 65 /\ c <= 64 + Len(parseIn.options)

\* The texts of the options named by the capital letters of the answer part,
\* in the order of their first occurrence, each letter once.
NamedOptionTexts ==
    LET part == AnswerPart(ParsedText)
        pos  == SelectSeq([k \in 1..Len(part) |-> k], LAMBDA k :
                    /\ NamesOption(part[k])
                    /\ \A j \in 1..(k - 1) : part[j] # part[k])
    IN  [n \in 1..Len(pos) |-> parseIn.options[part[pos[n]] - 64].text]

\* The texts of the options whose text occurs in the reply, in option order.
ContainedOptionTexts ==
    LET idx == SelectSeq([i \in 1..Len(parseIn.options) |-> i],
                         LAMBDA i : i \in ContainedOptions)
    IN  [n \in 1..Len(idx) |-> parseIn.options[idx[n]].text]

\* C14: in multiple mode the answers of a parse that returns are the texts of
\* the options named by the valid letters of the answer part, in the order of
\* first occurrence and each once.
C14_MultipleModeAnswersAreNamedOptions ==
    (ParseReturned /\ parseIn.questionType # "single")
        => parseOut[1].answers = NamedOptionTexts

\* C14, amended: that holds when the answer part has a valid letter; when it
\* has none, the answers are the options whose text the reply contains.
C14_MultipleModeLettersElseTextMatch ==
    (ParseReturned /\ parseIn.questionType # "single")
        => parseOut[1].answers =
               IF NamedOptionTexts # <<>> THEN NamedOptionTexts ELSE ContainedOptionTexts

\* A multiple-mode parse returned two answers on an answer part that repeats a letter.
C14_Witness ==
    /\ ParseReturned
    /\ parseIn.questionType # "single"
    /\ LET part == AnswerPart(ParsedText)
       IN  \E j, k \in 1..Len(part) : j < k /\ part[j] = part[k] /\ NamesOption(part[k])
    /\ Len(parseOut[1].answers) = 2
    /\ parseOut[1].answers = NamedOptionTexts

\* The character is a letter, capital or small, that names one of the options.
NamesOptionAnyCase(c) == NamesOption(ToUpperChar(c))

\* The positions of the answer part that hold a valid letter with the start
\* of the string or a non-alphanumeric character on its left and ".",
\* whitespace or the end of the string on its right.
BoundedLetterPositions ==
    LET part == AnswerPart(ParsedText)
    IN  {k \in 1..Len(part) :
            /\ NamesOptionAnyCase(part[k])
            /\ (k > 1 => ~(IsUpper(part[k - 1]) \/ IsLower(part[k - 1]) \/ IsDigit(part[k - 1])))
            /\ (k < Len(part) => (part[k + 1] = 46 \/ IsSpace(part[k + 1])))}

\* The position of the letter that decides a single-mode parse, 0 when the
\* answer part has none.
DecidingPosition ==
    LET part == AnswerPart(ParsedText)
    IN  IF Len(part) = 1 /\ NamesOptionAnyCase(part[1]) THEN 1
        ELSE IF BoundedLetterPositions = {} THEN 0
        ELSE CHOOSE k \in BoundedLetterPositions : \A j \in BoundedLetterPositions : k <= j

\* The option at the index of the deciding letter.
DecidedOptionText ==
    parseIn.options[ToUpperChar(AnswerPart(ParsedText)[DecidingPosition]) - 64].text

FirstMarker ==
    LET n    == Len(ExplanationKeyword)
        hits == {i \in 1..(Len(ParsedText) - n + 1) :
                    ToLowerCase(SubSeq(ParsedText, i, i + n - 1)) = ExplanationKeyword}
    IN  IF hits = {} THEN 0 ELSE CHOOSE i \in hits : \A j \in hits : i <= j

\* The text that may be searched for answer letters.
SearchedText ==
    IF FirstMarker = 0 THEN ParsedText
    ELSE Trim(SubSeq(ParsedText, 1, FirstMarker - 1))

\* The text after the first marker, trimmed.
TextAfterMarker ==
    Trim(SubSeq(ParsedText, FirstMarker + Len(ExplanationKeyword), Len(ParsedText)))

\* The answers the letters of the searched text give.
SearchedLetterAnswers ==
    LetterAnswers(parsedAnswerLetters(SearchedText, parseIn.options, parseIn.questionType),
                  parseIn.options)

\* C16: with an "Explanation:" marker (any case) the explanation is the trimmed
\* text after the first marker and only the text before it is searched for
\* answer letters; without a marker the whole text is searched and the
\* explanation is absent.
C16_ExplanationSplitsTheReply ==
    ParseReturned =>
        /\ parseOut[1].explanation =
               IF FirstMarker = 0 THEN <<>> ELSE <<TextAfterMarker>>
        /\ SearchedLetterAnswers # <<>> => parseOut[1].answers = SearchedLetterAnswers
        /\ SearchedLetterAnswers = <<>> =>
               \A k \in 1..Len(parseOut[1].answers) :
                   \E i \in ContainedOptions : parseOut[1].answers[k] = parseIn.options[i].text

\* A parse returned on a reply whose explanation holds a valid letter that
\* the text before the marker does not hold.
C16_Witness ==
    /\ ParseReturned
    /\ FirstMarker > 0
    /\ parseIn.questionType # "single"
    /\ MultipleModeLetters(ParsedText, parseIn.options)
           # MultipleModeLetters(SearchedText, parseIn.options)
    /\ parseOut[1].explanation = <<TextAfterMarker>>
    /\ TextAfterMarker # <<>>
    /\ parseOut[1].answers = SearchedLetterAnswers

\* No strategy yields an answer: no deciding letter in single mode, no valid
\* letter in the other mode, and no option whose text the reply contains.
NoStrategyYields ==
    /\ IF parseIn.questionType = "single" THEN DecidingPosition = 0
       ELSE NamedOptionTexts = <<>>
    /\ ContainedOptions = {}

\* C17: the parse throws when the response has no candidate, when the first
\* candidate has no text and when no strategy yields a valid answer; when it
\* returns, the answers are a non-empty list of texts of the options passed in.
C17_ThrowsOrReturnsOptionTexts ==
    ParseDone =>
        /\ HasNoCandidate(parseIn.geminiResponse) => parseOut[1].throws
        /\ ParsedText = <<>> => parseOut[1].throws
        /\ NoStrategyYields => parseOut[1].throws
        /\ ~parseOut[1].throws =>
               /\ parseOut[1].answers # <<>>
               /\ \A k \in 1..Len(parseOut[1].answers) :
                      \E i \in 1..Len(parseIn.options) :
                          parseOut[1].answers[k] = parseIn.options[i].text

\* A parse threw on a reply with text from which no strategy yields an answer.
C17_Witness ==
    /\ ParseDone
    /\ parseOut[1].throws
    /\ ParsedText # <<>>
    /\ Len(parseIn.options) > 0
    /\ NoStrategyYields

(***************************************************************************)
(* Claims about the wrong-answer store                                     *)
(***************************************************************************)
\* The list stored for a question of a quiz, empty when nothing is stored.
StoredWrongAnswers(courseId, quizId, questionSignature) ==
    LET key == quizSpecificKey(courseId, quizId)
    IN  IF key \in DOMAIN blockerData /\ questionSignature \in DOMAIN blockerData[key]
        THEN blockerData[key][questionSignature]
        ELSE <<>>

\* The question has a list in the store.
IsRecorded(courseId, quizId, questionSignature) ==
    LET key == quizSpecificKey(courseId, quizId)
    IN  key \in DOMAIN blockerData /\ questionSignature \in DOMAIN blockerData[key]

\* C18: after any sequence of sequential calls every stored list holds each
\* signature at most once, and getWrongAnswers for a question that is not
\* recorded returns the empty list without throwing.
C18_EachSignatureStoredOnce ==
    /\ \A key \in DOMAIN blockerData : \A q \in DOMAIN blockerData[key] :
           \A i, j \in 1..Len(blockerData[key][q]) :
               i # j => blockerData[key][q][i] # blockerData[key][q][j]
    /\ \A k \in 1..Len(blockerLast) :
           LET call == blockerLast[k]
           IN  (call.op = "get" /\ ~IsRecorded(call.args[1], call.args[2], call.args[3]))
                   => (call.result = <<>> /\ call.outcome \in {"returned", "rejected", "failed"})

\* The last call recorded a wrong answer that its question's list already held.
C18_Witness ==
    /\ blockerLast # <<>>
    /\ blockerLast[1].op = "add"
    /\ blockerLast[1].outcome = "already"
    /\ LET a == blockerLast[1].args
       IN  Len(SelectSeq(StoredWrongAnswers(a[1], a[2], a[3]), LAMBDA x : x = a[4])) = 1

\* C19: addWrongAnswer with a missing or empty parameter leaves the store
\* unchanged and completes without throwing.
C19_MissingParameterLeavesStore ==
    [][\A courseId \in CourseIdArgs, quizId \in QuizIdArgs,
         questionSignature \in QuestionSignatureArgs,
         wrongAnswerSignature \in WrongAnswerSignatureArgs, fails \in StorageFailures :
          (/\ AddWrongAnswer(courseId, quizId, questionSignature, wrongAnswerSignature, fails)
           /\ \/ IsMissing(courseId)
              \/ IsMissing(quizId)
              \/ IsMissing(questionSignature)
              \/ IsMissing(wrongAnswerSignature))
              => (blockerData' = blockerData /\ blockerLast'[1].outcome = "rejected")]_vars

\* The last call was an addWrongAnswer without its wrong-answer signature, on
\* a store that holds a list.
C19_Witness ==
    /\ blockerLast # <<>>
    /\ blockerLast[1].op = "add"
    /\ blockerLast[1].outcome = "rejected"
    /\ blockerLast[1].args[4] = ""
    /\ DOMAIN blockerData # {}

(***************************************************************************)
(* Claims about the background handler                                     *)
(***************************************************************************)
\* The request was received without a stored API key.
NoApiKeyConfigured ==
    bgMsg # <<>> /\ bgMsg[1].apiKey \in {"", Undefined}

\* The request was received with a question that has no text or no option.
FailsPromptPreconditions ==
    /\ bgMsg # <<>>
    /\ \/ bgMsg[1].questionData = Null
       \/ Len(bgMsg[1].questionData.question) = 0
       \/ Len(bgMsg[1].questionData.options) = 0

\* C20: without an API key, or with a question that has no text or no option,
\* no request goes out to the API and the handler ends with an error response.
C20_NoRequestWithoutKeyOrValidQuestion ==
    (NoApiKeyConfigured \/ FailsPromptPreconditions)
        => /\ requests = 0
           /\ apiPc = "idle"
           /\ bgPc \in {"received", "settings", "replied"}
           /\ bgPc = "replied" => (bgReply # <<>> /\ bgReply[1].status = "error")

\* The handler answered a question without options, for which a key was
\* stored and every storage read succeeded.
C20_Witness ==
    /\ bgPc = "replied"
    /\ FailsPromptPreconditions
    /\ ~NoApiKeyConfigured
    /\ bgMsg[1].storage = "ok"
    /\ bgMsg[1].questionData # Null
    /\ Len(bgMsg[1].questionData.options) = 0
    /\ bgReply[1].status = "error"
    /\ requests = 0

(***************************************************************************)
(* Detector specification: one call of DOMDetector.detect()                *)
(* (src/unnamed/part_006) on a document drawn from a set of containers.    *)
(* A container is given by what its selectors find: the textContent of the *)
(* elements the question text selectors match, in selector order, the code *)
(* its code elements hold, and its raw option elements. No text holds the  *)
(* CSS of a Monaco list, so the second alternative of the regular          *)
(* expression of line 381 matches nowhere.                                 *)
(***************************************************************************)
\* Line 197: the least length of a question text.
MinQuestionLength == 10

\* The first index from i on that holds no white space, Len(s) + 1 if none.
SkipSpaces(s, i) ==
    LET rest == {j \in i..Len(s) : ~IsSpace(s[j])}
    IN  IF rest = {} THEN Len(s) + 1 ELSE CHOOSE j \in rest : \A k \in rest : j <= k

\* The first index from i on that holds no digit, Len(s) + 1 if none.
SkipDigits(s, i) ==
    LET rest == {j \in i..Len(s) : ~IsDigit(s[j])}
    IN  IF rest = {} THEN Len(s) + 1 ELSE CHOOSE j \in rest : \A k \in rest : j <= k

\* Line 189: questionText.replace(/^\s*\d+\.\s*|^[A-Z]\.\s*/, '')
StripEnumerator(s) ==
    LET d0 == SkipSpaces(s, 1)
        d1 == SkipDigits(s, d0)
    IN  IF d1 > d0 /\ d1 <= Len(s) /\ s[d1] = 46
        THEN SubSeq(s, SkipSpaces(s, d1 + 1), Len(s))
        ELSE IF Len(s) >= 2 /\ IsUpper(s[1]) /\ s[2] = 46
        THEN SubSeq(s, SkipSpaces(s, 3), Len(s))
        ELSE s

\* Line 317: optionText.replace(/^[A-Z]\.\s*/, '')
StripOptionLetter(s) ==
    IF Len(s) >= 2 /\ IsUpper(s[1]) /\ s[2] = 46
    THEN SubSeq(s, SkipSpaces(s, 3), Len(s))
    ELSE s

\* Line 320: text.replace(/^[a-zA-Z]\.\s*|^[0-9]\.\s*/, '')
StripOptionPrefix(s) ==
    IF Len(s) >= 2 /\ (IsUpper(s[1]) \/ IsLower(s[1]) \/ IsDigit(s[1])) /\ s[2] = 46
    THEN SubSeq(s, SkipSpaces(s, 3), Len(s))
    ELSE s

\* Line 381: "Enter to Rename" and "Shift+Enter to Preview".
MonacoPhrases ==
    {<<69, 110, 116, 101, 114, 32, 116, 111, 32, 82, 101, 110, 97, 109, 101>>,
     <<83, 104, 105, 102, 116, 43, 69, 110, 116, 101, 114, 32, 116, 111, 32, 80, 114, 101, 118, 105, 101, 119>>}

\* phrase occurs in s at index i.
OccursAt(s, phrase, i) ==
    /\ i + Len(phrase) - 1 <= Len(s)
    /\ \A j \in 1..Len(phrase) : s[i + j - 1] = phrase[j]

RECURSIVE RemoveMonacoPhrases(_)
\* text.replace(/(\s*(?:Enter to Rename|Shift\+Enter to Preview)\s*)/g, ''):
\* every phrase goes with the white space around it.
RemoveMonacoPhrases(s) ==
    LET hits == {i \in 1..Len(s) : \E p \in MonacoPhrases : OccursAt(s, p, i)}
    IN  IF hits = {} THEN s
        ELSE LET i == CHOOSE h \in hits : \A k \in hits : h <= k
                 p == CHOOSE q \in MonacoPhrases : OccursAt(s, q, i)
                 before == {j \in 1..(i - 1) : \A k \in j..(i - 1) : IsSpace(s[k])}
                 from == IF before = {} THEN i
                         ELSE CHOOSE j \in before : \A k \in before : j <= k
             IN  SubSeq(s, 1, from - 1)
                     \o RemoveMonacoPhrases(SubSeq(s, SkipSpaces(s, i + Len(p)), Len(s)))

\* Lines 378-383
cleanMonacoEditorArtifacts(text) == Trim(RemoveMonacoPhrases(text))

\* Lines 185-193: the text of the first element found whose text is not
\* blank, trimmed and without its enumerator; << >> is null.
ExtractedQuestionText(found) ==
    LET hits == {i \in 1..Len(found) : Trim(found[i]) # <<>>}
    IN  IF hits = {} THEN <<>>
        ELSE <<Trim(StripEnumerator(Trim(found[CHOOSE i \in hits : \A j \in hits : i <= j])))>>

\* A text of any length passes.
InsufficientQuestionTextOnlyMissing(questionText) == questionText = <<>>

\* Line 197: !questionText || questionText.length < 10

InsufficientQuestionText(questionText) ==
    questionText = <<>> \/ Len(questionText[1]) < MinQuestionLength

\* Lines 207-248: the question text with the trimmed code in a fence.
CodeFenceOpen == <<96, 96, 96, 106, 97, 118, 97, 115, 99, 114, 105, 112, 116, 10>>
CodeFenceClose == <<10, 96, 96, 96>>

CombinedQuestionText(questionText, code) ==
    IF Trim(code) = <<>> THEN questionText
    ELSE questionText \o <<10, 10>> \o CodeFenceOpen \o Trim(code) \o CodeFenceClose

\* Lines 293-328: the text of an option element: its code when that is longer
\* than 5 characters, else the text of its text element without a leading
\* letter, else its own text without a leading letter or digit; cleaned.
ExtractedOptionText(optionElement) ==
    LET raw == IF Len(Trim(optionElement.code)) > 5 THEN Trim(optionElement.code)
               ELSE IF Trim(optionElement.text) # <<>>
               THEN Trim(StripOptionLetter(Trim(optionElement.text)))
               ELSE Trim(StripOptionPrefix(Trim(optionElement.elementText)))
    IN  IF raw = <<>> THEN raw ELSE cleanMonacoEditorArtifacts(raw)

\* Line 335: optionText.replace(/[^a-zA-Z0-9]/g, '_').toLowerCase().substring(0, 50)
FallbackValue(optionText) ==
    LET u == [i \in 1..Len(optionText) |->
                 IF IsUpper(optionText[i]) \/ IsLower(optionText[i]) \/ IsDigit(optionText[i])
                 THEN ToLowerChar(optionText[i]) ELSE 95]
    IN  SubSeq(u, 1, Min(Len(u), 50))

\* Line 339: optionText && inputElement
IsValidOption(optionElement) ==
    ExtractedOptionText(optionElement) # <<>> /\ optionElement.input # <<>>

\* Lines 285-344: the options pushed, in the order of the raw elements.
ExtractedOptions(optionElements) ==
    LET valid == SelectSeq(optionElements, IsValidOption)
    IN  [i \in 1..Len(valid) |->
            LET optionText == ExtractedOptionText(valid[i])
                input == valid[i].input[1]
            IN  Option(optionText,
                       IF input.value # <<>> THEN input.value ELSE FallbackValue(optionText),
                       input.type)]

\* Line 348: options.length < 2
MinOptions == 2

\* extractQuestion(container), lines 168-371: << >> is null.
extractQuestionFrom(container) ==
    LET questionText == ExtractedQuestionText(container.found)
        options == ExtractedOptions(container.optionElements)
    IN  IF InsufficientQuestionText(questionText) THEN <<>>
        ELSE IF Len(options) < MinOptions THEN <<>>
        ELSE <<extractQuestion(container.id,
                               CombinedQuestionText(questionText[1], container.code),
                               options)>>

RECURSIVE Deduplicated(_)
\* Lines 131-138: each container once, at its first match.
Deduplicated(matches) ==
    IF matches = <<>> THEN <<>>
    ELSE LET front == Deduplicated(SubSeq(matches, 1, Len(matches) - 1))
             last == matches[Len(matches)]
         IN  IF last \in Range(front) THEN front ELSE Append(front, last)

\* Lines 146-159: the questions of the containers, in their order.
DetectedQuestions(containers) ==
    Concat([i \in 1..Len(containers) |-> extractQuestionFrom(containers[i])], 1)

\* An element of the option list: the code in it, the text of its text
\* element, its own text, and its input element (<< >> if it has none).
OptionElement(code, text, elementText, input) ==
    [code |-> code, text |-> text, elementText |-> elementText, input |-> input]

InputElement(type, value) == <<[type |-> type, value |-> value]>>

\* "Four" with a radio button of value "4".
OptionFour == OptionElement(<<>>, <<70, 111, 117, 114>>, <<70, 111, 117, 114>>, InputElement("radio", <<52>>))

\* "B. Five" with a radio button without a value.
OptionFive == OptionElement(<<>>, <<66, 46, 32, 70, 105, 118, 101>>, <<66, 46, 32, 70, 105, 118, 101>>, InputElement("radio", <<>>))

\* "Six" without an input element.
OptionSix == OptionElement(<<>>, <<83, 105, 120>>, <<83, 105, 120>>, <<>>)

\* "Enter to Rename", with a checkbox: nothing is left of its text.
OptionArtifact == OptionElement(<<>>, <<69, 110, 116, 101, 114, 32, 116, 111, 32, 82, 101, 110, 97, 109, 101>>, <<69, 110, 116, 101, 114, 32, 116, 111, 32, 82, 101, 110, 97, 109, 101>>, InputElement("checkbox", <<48>>))

\* A blank text element in an option that reads "c. Seven", with a checkbox.
OptionSeven == OptionElement(<<>>, <<32, 32>>, <<99, 46, 32, 83, 101, 118, 101, 110>>, InputElement("checkbox", <<55>>))

\* The code "return 7;" with a radio button.
OptionCode == OptionElement(<<114, 101, 116, 117, 114, 110, 32, 55, 59>>, <<>>, <<114, 101, 116, 117, 114, 110, 32, 55, 59>>, InputElement("radio", <<>>))

OptionElementLists ==
    << <<>>,
       <<OptionFour>>,
       <<OptionFour, OptionFive>>,
       <<OptionFour, OptionSix>>,
       <<OptionArtifact, OptionFour>>,
       <<OptionSix, OptionSeven, OptionArtifact, OptionCode>>,
       <<OptionFour, OptionFive, OptionSeven>> >>

\* The texts found by the question text selectors: none, a blank one,
\* "Output?", "Is 2 odd?", "Is it odd?", "1. Is it odd?", "12. Is 2 odd?",
\* a blank one before "What is two plus two?", "1. " before that text, and
\* "A. Pick one of these".
FoundTexts ==
    << <<>>,
       << <<32, 32>> >>,
       << <<79, 117, 116, 112, 117, 116, 63>> >>,
       << <<73, 115, 32, 50, 32, 111, 100, 100, 63>> >>,
       << <<73, 115, 32, 105, 116, 32, 111, 100, 100, 63>> >>,
       << <<49, 46, 32, 73, 115, 32, 105, 116, 32, 111, 100, 100, 63>> >>,
       << <<49, 50, 46, 32, 73, 115, 32, 50, 32, 111, 100, 100, 63>> >>,
       << <<32, 32>>, 
          <<87, 104, 97, 116, 32, 105, 115, 32, 116, 119, 111, 32, 112, 108, 117, 115, 32, 116, 119, 111, 63>> >>,
       << <<49, 46, 32>>, 
          <<87, 104, 97, 116, 32, 105, 115, 32, 116, 119, 111, 32, 112, 108, 117, 115, 32, 116, 119, 111, 63>> >>,
       << <<65, 46, 32, 80, 105, 99, 107, 32, 111, 110, 101, 32, 111, 102, 32, 116, 104, 101, 115, 101>> >> >>

\* No code, and the code "x = 1".
CodeTexts == << <<>>, <<120, 32, 61, 32, 49>> >>

Container(f, c, o) ==
    [id |-> <<f, c, o>>, found |-> FoundTexts[f], code |-> CodeTexts[c],
     optionElements |-> OptionElementLists[o]]

Containers ==
    {Container(f, c, o) : f \in DOMAIN FoundTexts, c \in DOMAIN CodeTexts,
                          o \in DOMAIN OptionElementLists}

\* What the container selectors of lines 115-128 match: one container, one
\* container matched by two selectors, or a container before container
\* <<8, 1, 3>>.
Documents ==
    {<<c>> : c \in Containers}
        \cup {<<c, c>> : c \in Containers}
        \cup {<<c, Container(8, 1, 3)>> : c \in Containers}

\* detect(), lines 108-161.
Detect ==
    /\ detPc = "idle"
    /\ detPc' = "done"
    /\ detQuestions' = DetectedQuestions(Deduplicated(detDocument))
    /\ UNCHANGED detDocument
    /\ UNCHANGED <<cacheVars, apiVars, contentVars, solverVars, schedVars, parserVars,
                   blockerVars, backgroundVars, hashVars, pendingVars>>

NextDetector == Detect

InitDetector ==
    /\ detDocument \in Documents
    /\ detQuestions = <<>>
    /\ detPc = "idle"
    /\ ParserIdle
    /\ BlockerIdle
    /\ BackgroundIdle
    /\ HashIdle
    /\ PendingIdle
    /\ ContentIdle
    /\ SchedulerIdle
    /\ SolverIdle
    /\ cachedAnswers = EmptyObject
    /\ WritersIdle
    /\ ApiIdle

SpecDetector == InitDetector /\ [][NextDetector]_vars

(***************************************************************************)
(* Claims about the detector                                               *)
(***************************************************************************)
\* The number of Questions detect() made of container c.
QuestionsOf(c) == Len(SelectSeq(detQuestions, LAMBDA q : q.container = c.id))

\* The number of option elements of c with a text and an input element.
ValidOptionCount(c) == Len(SelectSeq(c.optionElements, IsValidOption))

\* The question text of c is missing or shorter than 10 characters.
ShortQuestionText(c) ==
    \/ ExtractedQuestionText(c.found) = <<>>
    \/ Len(ExtractedQuestionText(c.found)[1]) < 10

HashTexts ==
    {<<71, 111, 32, 116, 111, 32, 82, 111, 109, 101>>,
     <<103, 111, 32, 116, 111, 32, 114, 111, 109, 101>>,
     <<32, 71, 111, 32, 116, 111, 32, 82, 111, 109, 101>>,
     <<71, 111, 32, 116, 111, 32, 82, 111, 109, 101, 32>>,
     <<71, 111, 32, 32, 116, 111, 32, 82, 111, 109, 101>>,
     <<71, 111, 32, 116, 111, 32, 82, 111, 109, 101, 46>>,
     <<71, 111, 32, 45, 32, 116, 111, 32, 82, 111, 109, 101>>,
     <<>>,
     <<46>>,
     <<32>>,
     <<71, 111, 32, 116, 111, 32, 82, 111, 109, 97>>}

TextOption(text) == [text |-> text]

\* "Lyon" and "Paris" in both orders, in other case and with a leading space,
\* beside "New York" with one and with two spaces, and with "Paris" twice.
HashOptionLists ==
    {<<TextOption(<<76, 121, 111, 110>>), TextOption(<<80, 97, 114, 105, 115>>)>>,
     <<TextOption(<<80, 97, 114, 105, 115>>), TextOption(<<76, 121, 111, 110>>)>>,
     <<TextOption(<<108, 121, 111, 110>>), TextOption(<<32, 80, 97, 114, 105, 115>>)>>,
     <<TextOption(<<76, 121, 111, 110>>), TextOption(<<78, 101, 119, 32, 89, 111, 114, 107>>)>>,
     <<TextOption(<<76, 121, 111, 110>>), TextOption(<<78, 101, 119, 32, 32, 89, 111, 114, 107>>)>>,
     <<TextOption(<<80, 97, 114, 105, 115>>), TextOption(<<76, 121, 111, 110>>), TextOption(<<80, 97, 114, 105, 115>>)>>,
     <<TextOption(<<76, 121, 111, 110>>), TextOption(<<80, 97, 114, 105, 115>>), TextOption(<<80, 97, 114, 105, 115>>)>>}

HashInputs == [questionText : HashTexts, options : HashOptionLists]

\* generateQuestionHash(questionText, options) and generateSignature(text) of
\* both questions, generateSignature of the normalised texts, and a second
\* call of generateSignature.
ComputeFingerprints ==
    /\ hashOut = <<>>
    /\ hashOut' =
           [i \in 1..2 |->
               [hash |-> generateQuestionHash(hashIn[i].questionText, hashIn[i].options),
                signature |-> generateSignature(hashIn[i].questionText),
                ofNormalized |->
                    generateSignature(NormalizeForSignature(hashIn[i].questionText)),
                repeated |-> generateSignature(hashIn[i].questionText)]]
    /\ UNCHANGED hashIn
    /\ UNCHANGED <<cacheVars, apiVars, contentVars, solverVars, schedVars, parserVars,
                   blockerVars, backgroundVars, detectorVars, pendingVars>>

NextHash == ComputeFingerprints

InitHash ==
    /\ hashIn \in {<<x, y>> : x \in HashInputs, y \in HashInputs}
    /\ hashOut = <<>>
    /\ DetectorIdle
    /\ ParserIdle
    /\ BlockerIdle
    /\ BackgroundIdle
    /\ PendingIdle
    /\ ContentIdle
    /\ SchedulerIdle
    /\ SolverIdle
    /\ cachedAnswers = EmptyObject
    /\ WritersIdle
    /\ ApiIdle

SpecHash == InitHash /\ [][NextHash]_vars

(***************************************************************************)
(* Claims about the fingerprints                                           *)
(***************************************************************************)
\* b holds the elements of a in some order.
IsPermutation(a, b) ==
    /\ Len(a) = Len(b)
    /\ \E p \in [1..Len(a) -> 1..Len(a)] :
           /\ \A i, j \in 1..Len(a) : p[i] = p[j] => i = j
           /\ \A i \in 1..Len(a) : b[i] = a[p[i]]

\* C25: generateQuestionHash gives the same hash for a question text with an
\* option list and for the same text with a permutation of that list.
C25_HashIgnoresOptionOrder ==
    hashOut # <<>> =>
        ((/\ hashIn[1].questionText = hashIn[2].questionText
          /\ IsPermutation(hashIn[1].options, hashIn[2].options))
             => hashOut[1].hash = hashOut[2].hash)

\* The hashes of a question with three options and of the same question
\* with these options in another order have been computed.
C25_Witness ==
    /\ hashOut # <<>>
    /\ hashIn[1].questionText = hashIn[2].questionText
    /\ hashIn[1].options # hashIn[2].options
    /\ Len(hashIn[1].options) = 3
    /\ IsPermutation(hashIn[1].options, hashIn[2].options)

\* s without its i-th character.
DeleteAt(s, i) == SubSeq(s, 1, i - 1) \o SubSeq(s, i + 1, Len(s))

\* a and b differ only in letter case.
CaseVariant(a, b) ==
    /\ Len(a) = Len(b)
    /\ \A i \in 1..Len(a) : ToLowerChar(a[i]) = ToLowerChar(b[i])

\* s[i] is part of the leading or of the trailing white space of s.
EdgeSpaceAt(s, i) ==
    \/ \A j \in 1..i : IsSpace(s[j])
    \/ \A j \in i..Len(s) : IsSpace(s[j])

\* s[i] is a white space character next to another one, inside s.
RunSpaceAt(s, i) ==
    /\ IsSpace(s[i])
    /\ ~EdgeSpaceAt(s, i)
    /\ IsSpace(s[i - 1]) \/ IsSpace(s[i + 1])

\* b is a without one character of its leading or trailing white space.
EdgeSpaceVariant(a, b) == \E i \in 1..Len(a) : EdgeSpaceAt(a, i) /\ b = DeleteAt(a, i)

\* b is a with one internal run of white space shorter by one.
RunLengthVariant(a, b) == \E i \in 1..Len(a) : RunSpaceAt(a, i) /\ b = DeleteAt(a, i)

\* b is a without one character of the stripped punctuation set.
PunctuationVariant(a, b) ==
    \E i \in 1..Len(a) : a[i] \in SignaturePunctuation /\ b = DeleteAt(a, i)

\* a and b differ in case, or by one character of edge white space, of a
\* white space run or of punctuation.
SignatureVariants(a, b) ==
    \/ CaseVariant(a, b)
    \/ EdgeSpaceVariant(a, b) \/ EdgeSpaceVariant(b, a)
    \/ RunLengthVariant(a, b) \/ RunLengthVariant(b, a)
    \/ PunctuationVariant(a, b) \/ PunctuationVariant(b, a)

\* C26: generateSignature gives the same result for two texts that differ
\* only in letter case, in leading or trailing white space, in the length of
\* a white space run or in stripped punctuation; the signature of a text is
\* the signature of its normalised form; a repeated call gives the same
\* result.
C26_SignatureIgnoresCaseSpaceAndPunctuation ==
    hashOut # <<>> =>
        /\ SignatureVariants(hashIn[1].questionText, hashIn[2].questionText)
               => hashOut[1].signature = hashOut[2].signature
        /\ \A i \in 1..2 :
               /\ hashOut[i].signature = hashOut[i].ofNormalized
               /\ hashOut[i].signature = hashOut[i].repeated

\* C26: the same for texts that hold a character which is neither white space
\* nor stripped punctuation; the empty text has the signature '' and every
\* other text without such a character has the signature '0'.
C26_SignatureOfTextWithContent ==
    hashOut # <<>> =>
        /\ (/\ SignatureVariants(hashIn[1].questionText, hashIn[2].questionText)
            /\ NormalizeForSignature(hashIn[1].questionText) # <<>>)
               => hashOut[1].signature = hashOut[2].signature
        /\ \A i \in 1..2 :
               /\ hashOut[i].signature = hashOut[i].repeated
               /\ IF NormalizeForSignature(hashIn[i].questionText) # <<>>
                  THEN hashOut[i].signature = hashOut[i].ofNormalized
                  ELSE /\ hashOut[i].ofNormalized = <<>>
                       /\ hashOut[i].signature
                              = (IF hashIn[i].questionText = <<>> THEN <<>> ELSE <<0>>)

\* The signatures of "Go - to Rome" and of "Go  to Rome" have been computed
\* and are the same, and not '0'.
C26_Witness ==
    /\ hashOut # <<>>
    /\ PunctuationVariant(hashIn[1].questionText, hashIn[2].questionText)
    /\ \E i \in 1..Len(hashIn[2].questionText) : RunSpaceAt(hashIn[2].questionText, i)
    /\ hashOut[1].signature = hashOut[2].signature
    /\ hashOut[1].signature # <<0>>

\* The question texts, and the texts of the options one by one, are the same
\* or related by rel.
QuestionsRelated(x, y, rel(_, _)) ==
    /\ x.questionText = y.questionText \/ rel(x.questionText, y.questionText)
    /\ Len(x.options) = Len(y.options)
    /\ \A i \in 1..Len(x.options) :
           x.options[i].text = y.options[i].text \/ rel(x.options[i].text, y.options[i].text)

\* a and b differ in case, or by one character of edge white space or of a
\* white space run.
LayoutVariants(a, b) ==
    \/ CaseVariant(a, b)
    \/ EdgeSpaceVariant(a, b) \/ EdgeSpaceVariant(b, a)
    \/ RunLengthVariant(a, b) \/ RunLengthVariant(b, a)

\* a and b differ in case, or by one character of edge white space.
CaseAndEdgeVariants(a, b) ==
    \/ CaseVariant(a, b)
    \/ EdgeSpaceVariant(a, b) \/ EdgeSpaceVariant(b, a)

\* C29: the question+options hash is the same for two inputs that differ
\* only in letter case, in leading or trailing white space or in the length
\* of internal white space runs of the question text or of an option text.
C29_HashIgnoresCaseAndWhiteSpace ==
    hashOut # <<>> =>
        (QuestionsRelated(hashIn[1], hashIn[2], LayoutVariants)
             => hashOut[1].hash = hashOut[2].hash)

\* C29: the question+options hash is the same for two inputs that differ
\* only in letter case or in leading or trailing white space of the question
\* text or of an option text.
C29_HashIgnoresCaseAndEdgeWhiteSpace ==
    hashOut # <<>> =>
        (QuestionsRelated(hashIn[1], hashIn[2], CaseAndEdgeVariants)
             => hashOut[1].hash = hashOut[2].hash)

\* The hashes of "Go to Rome" with Lyon, Paris and of " Go to Rome" with
\* lyon, " Paris" have been computed.
C29_Witness ==
    /\ hashOut # <<>>
    /\ EdgeSpaceVariant(hashIn[2].questionText, hashIn[1].questionText)
    /\ hashIn[1].options # hashIn[2].options
    /\ QuestionsRelated(hashIn[1], hashIn[2], CaseAndEdgeVariants)
    /\ hashOut[1].hash = hashOut[2].hash

(***************************************************************************)
(* Claims about overwriting a cache entry                                  *)
(***************************************************************************)
\* C27: CacheManager.set on a key that is already in the store overwrites
\* that entry and removes no other entry, whatever the store size: the object
\* it will write holds the keys it read, and every other entry as it was.
C27_OverwriteRemovesNoOtherEntry ==
    [][\A w \in Writers, h \in SetKeys :
           (CacheSetRead(w, h, FALSE) /\ h \in DOMAIN cachedAnswers) =>
               /\ DOMAIN wpend'[w] = DOMAIN cachedAnswers
               /\ \A k \in DOMAIN cachedAnswers \ {h} : wpend'[w][k] = cachedAnswers[k]]_vars

(***************************************************************************)
(* Concurrent SmartBlocker specification: addWrongAnswer calls made by     *)
(* REPORT_INCORRECT_ANSWER handlers of background.js (lines 199-221) that  *)
(* run at the same time. A call reads the stored object at line 65, and a  *)
(* call that pushed a signature writes its object back at line 73; other   *)
(* calls run between the two awaits.                                       *)
(***************************************************************************)
\* addWrongAnswer, lines 55-72: up to the await of StorageManager.set.
AddWrongAnswerRead(courseId, quizId, questionSignature, wrongAnswerSignature, fails) ==
    LET args == <<courseId, quizId, questionSignature, wrongAnswerSignature>>
        list == WrongAnswersOf(QuizDataOf(blockerData, quizSpecificKey(courseId, quizId)),
                               questionSignature)
    IN  /\ blockerCalls < MaxBlockerCalls
        /\ blockerCalls' = blockerCalls + 1
        /\ IF MissingParameters(courseId, quizId, questionSignature, wrongAnswerSignature)
           THEN /\ blockerLast' = BlockerCall("add", args, "rejected", <<>>)
                /\ UNCHANGED blockerPending
           ELSE IF fails
           THEN /\ blockerLast' = BlockerCall("add", args, "failed", <<>>)
                /\ UNCHANGED blockerPending
           ELSE IF PushedWrongAnswers(list, wrongAnswerSignature) = list
           THEN /\ blockerLast' = BlockerCall("add", args, "already", <<>>)
                /\ UNCHANGED blockerPending
           ELSE /\ blockerPending' =
                       Append(blockerPending,
                              [args |-> args,
                               storedData |-> StoredDataAfterAdd(blockerData, courseId, quizId,
                                                  questionSignature, wrongAnswerSignature)])
                /\ UNCHANGED blockerLast
        /\ UNCHANGED blockerData
        /\ UNCHANGED <<cacheVars, apiVars, contentVars, solverVars, schedVars,
                       parserVars, backgroundVars, detectorVars, hashVars>>

\* addWrongAnswer, lines 73-79: StorageManager.set stores the object of the
\* k-th waiting call, or rejects and the catch block logs the error.
AddWrongAnswerWrite(k, fails) ==
    /\ k \in 1..Len(blockerPending)
    /\ blockerPending' = [j \in 1..(Len(blockerPending) - 1) |->
                             IF j < k THEN blockerPending[j] ELSE blockerPending[j + 1]]
    /\ blockerData' = IF fails THEN blockerData ELSE blockerPending[k].storedData
    /\ blockerLast' = BlockerCall("add", blockerPending[k].args,
                                  IF fails THEN "failed" ELSE "added", <<>>)
    /\ UNCHANGED blockerCalls
    /\ UNCHANGED <<cacheVars, apiVars, contentVars, solverVars, schedVars,
                   parserVars, backgroundVars, detectorVars, hashVars>>

NextBlockerRace ==
    \/ \E courseId \in CourseIdArgs, quizId \in QuizIdArgs,
          questionSignature \in QuestionSignatureArgs,
          wrongAnswerSignature \in WrongAnswerSignatureArgs, fails \in BOOLEAN :
           AddWrongAnswerRead(courseId, quizId, questionSignature, wrongAnswerSignature, fails)
    \/ \E k \in 1..MaxBlockerCalls, fails \in BOOLEAN : AddWrongAnswerWrite(k, fails)

SpecBlockerRace == InitBlocker /\ [][NextBlockerRace]_vars

(***************************************************************************)
(* Claims about concurrent reports of wrong answers                        *)
(***************************************************************************)
\* C28: no addWrongAnswer call removes a signature that another call has
\* stored, for every interleaving of the reads and writes of the calls.
C28_StoredSignaturesOnlyGrow ==
    [][\A key \in DOMAIN blockerData : \A q \in DOMAIN blockerData[key] :
           \A i \in 1..Len(blockerData[key][q]) :
               /\ key \in DOMAIN blockerData'
               /\ q \in DOMAIN blockerData'[key]
               /\ blockerData[key][q][i] \in Range(blockerData'[key][q])]_vars

(***************************************************************************)
(* Claims about the decoding of letters                                    *)
(***************************************************************************)
\* The letters that lines 63-92 extract from the answer part of the reply.
DecodedLetters ==
    parsedAnswerLetters(AnswerPart(ParsedText), parseIn.options, parseIn.questionType)

\* C30: in both modes every letter that the extraction decodes stands in the
\* answer part as an uppercase letter of A..(A + optionCount - 1); a lowercase
\* letter of the reply is never decoded as an option letter.
C30_OnlyUppercaseLettersAreDecoded ==
    ParseDone =>
        \A k \in 1..Len(DecodedLetters) :
            /\ IsOptionLetter(DecodedLetters[k], parseIn.options)
            /\ DecodedLetters[k] \in Range(AnswerPart(ParsedText))

(***************************************************************************)
(* Claims about code blocks in questions                                   *)
(***************************************************************************)
\* The code of container c in its fence.
FencedCode(c) == CodeFenceOpen \o Trim(c.code) \o CodeFenceClose

\* The texts of the Questions detect() made of container c.
QuestionTextsOf(c) ==
    {detQuestions[i].question :
        i \in {j \in 1..Len(detQuestions) : detQuestions[j].container = c.id}}

\* C31: a container with a code block and at least 2 valid options yields one
\* Question: without a question text its text is the fenced code, and with a
\* question text (of at least 10 characters) it is that text followed by the
\* fenced code.
C31_CodeBlockBecomesQuestionText ==
    detPc = "done" =>
        \A c \in Range(detDocument) :
            (ValidOptionCount(c) >= 2 /\ Trim(c.code) # <<>>) =>
                IF ExtractedQuestionText(c.found) = <<>>
                THEN QuestionsOf(c) = 1 /\ QuestionTextsOf(c) = {FencedCode(c)}
                ELSE ~ShortQuestionText(c) =>
                         /\ QuestionsOf(c) = 1
                         /\ QuestionTextsOf(c)
                                = {ExtractedQuestionText(c.found)[1] \o <<10, 10>> \o FencedCode(c)}

(***************************************************************************)
(* Claims about the letters of the prompt and of the reply                 *)
(***************************************************************************)
\* The letters a reply names: the reply is one uppercase letter, or for a
\* checkbox question a list of different uppercase letters with commas and
\* spaces between them; << >> for every other reply.
NamedLetters(text, questionType) ==
    LET letters == SelectSeq(text, IsUpper)
    IN  IF /\ \A i \in 1..Len(text) : IsUpper(text[i]) \/ text[i] \in {44, 32}
           /\ \A i, j \in 1..Len(letters) : i # j => letters[i] # letters[j]
           /\ Len(text) = 1 \/ questionType = "multiple"
        THEN letters ELSE <<>>

\* The option texts the prompt shows under letter L.
ShownUnder(prompt, L) ==
    {SubSeq(prompt.optionLines[i], 4, Len(prompt.optionLines[i])) :
        i \in {j \in 1..Len(prompt.optionLines) : prompt.optionLines[j][1] = L}}

\* C32: the handler answers a reply that names letters of the prompt with the
\* options the prompt showed under these letters, in the order of the reply,
\* for the full option list and for a filtered one.
C32_ReplyLetterSelectsShownOption ==
    (bgPc = "replied" /\ bgResponse # <<>>) =>
        LET prompt  == bgPrompt[1]
            named   == NamedLetters(bgResponse[1], bgMsg[1].questionData.questionType)
            letters == SelectSeq(named, LAMBDA L : ShownUnder(prompt, L) # {})
        IN  letters # <<>> =>
                /\ bgReply[1].status = "success"
                /\ Len(bgReply[1].answers) = Len(letters)
                /\ \A k \in 1..Len(letters) :
                       ShownUnder(prompt, letters[k]) = {bgReply[1].answers[k]}

\* The handler answered the reply "B" for the capital question sent without
\* its first option: the answer is "paris!", the second of the two options.
C32_Witness ==
    /\ bgPc = "replied"
    /\ bgResponse = <<ReplyB>>
    /\ Len(bgMsg[1].questionData.options) = 2
    /\ bgMsg[1].questionData.options[2] = CapitalOptions[3]
    /\ bgReply[1].status = "success"
    /\ bgReply[1].answers = <<CapitalOptions[3].text>>

(***************************************************************************)
(* Claims about blocked answers and the renderer                           *)
(***************************************************************************)
\* The answers handed to AnswerRenderer.renderAnswer for question i whose
\* signature is in the blocker list read for question i in this scan.
BlockedRenderedAnswers(i) ==
    {k \in 1..Len(rendered[i].answers) :
        generateSignature(rendered[i].answers[k])
            \in Range(reads[i].blockedAnswerSignatures)}

\* C33: a bundle handed to the renderer, from the cache or from a fresh
\* solve, holds no answer whose signature is in the blocker list read for
\* its question in this scan, unless every option of the question is blocked.
C33_RenderedAnswersAreNotBlocked ==
    \A i \in DOMAIN rendered :
        (rendered[i].source # "none" /\ Len(NotBlocked(i)) > 0) =>
            BlockedRenderedAnswers(i) = {}

\* A fresh solve was rendered for a question whose blocker list was not
\* empty and left an option, and a cached bundle was rendered for a question
\* whose blocker list was not empty.
C33_Witness ==
    /\ \E i \in DOMAIN rendered :
           /\ rendered[i].source = "solve"
           /\ Len(rendered[i].answers) > 0
           /\ Len(reads[i].blockedAnswerSignatures) > 0
           /\ Len(NotBlocked(i)) > 0
    /\ \E j \in DOMAIN rendered :
           /\ rendered[j].source = "cache"
           /\ Len(reads[j].blockedAnswerSignatures) > 0
           /\ Len(NotBlocked(j)) > 0

(***************************************************************************)
(* Scheduling with awaited operations that complete: a running scan is     *)
(* resumed after each of its awaits.                                       *)
(***************************************************************************)
\* Some running call resumes after its await.
ScanResumes == \E k \in 1..MaxScans, throws \in BOOLEAN : ScanResume(k, throws)

FairSpecSched == SpecSched /\ WF_vars(ScanResumes)

\* C34: a scan that starts finishes with the active flag cleared, at once
\* when the page has no question and else after its awaits or its exception;
\* an invocation that starts no scan leaves the flag and the running scan
\* as they are.
C34_StartedScanFinishesAndClearsFlag ==
    /\ [](Len(inFlight) > 0 => <>(inFlight = <<>> /\ ~isSolverActive))
    /\ [][(started' # started /\ inFlight' = inFlight) => ~isSolverActive']_vars
    /\ [][(\E awaits \in 0..MaxAwaits : DebounceFire(awaits) \/ ManualTrigger(awaits))
              /\ started' = started
          => UNCHANGED <<isSolverActive, inFlight>>]_vars

\* One scan started, a trigger was refused while it ran, and the scan has
\* finished: the flag is cleared.
C34_Witness ==
    /\ started = 1
    /\ lastReply = "info"
    /\ inFlight = <<>>
    /\ ~isSolverActive

(***************************************************************************)
(* Scheduling with awaited operations that complete and timers that fire.  *)
(***************************************************************************)
\* Time passes for the pending debounce timer.
DebounceElapses == \E ms \in ElapseSteps : DebounceElapse(ms)

\* The debounce timer that is due runs its callback.
DebounceFires == \E awaits \in 0..MaxAwaits : DebounceFire(awaits)

FairSpecTimers ==
    /\ SpecSched
    /\ WF_vars(ScanResumes)
    /\ WF_vars(DebounceElapses)
    /\ WF_vars(DebounceFires)

\* C35: with auto-solve enabled, after a relevant mutation batch (the
\* debounce timer has just been set) a scan starts, also when the batch
\* arrives while a scan is active. Stated for pages whose mutations come to
\* an end, so that the timer of the last batch is not set anew for ever.
C35_BatchIsFollowedByScan ==
    <>[][~DomChange]_vars =>
        \A n \in 0..(MaxScans - 1) :
            [](( /\ currentSettings.autoSolve
                 /\ debounceArmed
                 /\ sinceBatch = 0
                 /\ started = n ) => <>(started > n))

(***************************************************************************)
(* The background handler with storage reads, API steps and continuations  *)
(* that complete.                                                          *)
(***************************************************************************)
\* The handler, which is at one place at a time, takes its next step.
BgProceeds ==
    \/ BgReadKey
    \/ BgBuildPrompt
    \/ BgApiStep
    \/ \E text \in ReplyTexts : BgSettle(text)

FairSpecBackground == SpecBackground /\ WF_vars(BgProceeds)

\* The handler met a failure: of the key lookup, of the settings read, of the
\* prompt construction, of the API call or of the parsing.
BgFailure ==
    \/ bgMsg[1].storage # "ok"
    \/ IsMissing(bgMsg[1].apiKey)
    \/ InvalidQuestionData(bgMsg[1].questionData)
    \/ apiPc = "thrown"
    \/ bgResponse = <<>>
    \/ parseGeminiResponse(TextResponse(bgResponse[1]), bgMsg[1].questionData.options,
                           bgMsg[1].questionData.questionType).throws

\* C36: a SOLVE_QUESTION_REQUEST that has entered the handler is answered,
\* once, with status 'success' or 'error'; no response is sent before the
\* handler ends; 'success' carries at least one answer and is sent only
\* when no step failed.
C36_EveryRequestGetsOneResponse ==
    /\ [](bgPc = "received" => <>(bgPc = "replied"))
    /\ [](bgPc # "replied" => bgReply = <<>>)
    /\ [](bgPc = "replied" =>
            /\ Len(bgReply) = 1
            /\ bgReply[1].status \in {"success", "error"}
            /\ bgReply[1].status = "success" => Len(bgReply[1].answers) > 0
            /\ BgFailure => bgReply[1].status = "error")
    /\ [][bgPc = "replied" => UNCHANGED bgReply]_vars

\* The API call of a request ended with an error and the handler answered
\* with status 'error'.
C36_Witness ==
    /\ bgPc = "replied"
    /\ apiPc = "thrown"
    /\ bgReply[1].status = "error"

(***************************************************************************)
(* Report specification: REPORT_INCORRECT_ANSWER requests handled by the   *)
(* listener of src/background/background.js, lines 199-221, between reads  *)
(* and clears of the blocker store.  The signatures of a request are not   *)
(* empty (quiz_result_parser.js lines 70 and 106 send no other).           *)
(***************************************************************************)
\* What chrome.storage.sync holds when SmartBlocker.addWrongAnswer has
\* returned: the call returns without a write for a missing parameter, for a
\* signature that is recorded and when the read or the write is rejected.
StoredDataAfterAddWrongAnswer(storedData, courseId, quizId, questionSignature, wrongAnswerSignature, fails) ==
    IF \/ MissingParameters(courseId, quizId, questionSignature, wrongAnswerSignature)
       \/ fails # "none"
    THEN storedData
    ELSE StoredDataAfterAdd(storedData, courseId, quizId, questionSignature,
                            wrongAnswerSignature)

\* Lines 199-221: the ids are taken from the URL of the sender's tab; without
\* them the handler answers 'error', else it awaits addWrongAnswer and
\* answers 'success'.
ReportIncorrectAnswer(courseId, quizId, questionSignature, wrongAnswerSignature, fails) ==
    LET args == <<courseId, quizId, questionSignature, wrongAnswerSignature>>
    IN  /\ blockerCalls < MaxBlockerCalls
        /\ blockerCalls' = blockerCalls + 1
        /\ IF IsMissing(courseId) \/ IsMissing(quizId)
           THEN /\ blockerLast' = BlockerCall("report", args, "error", <<>>)
                /\ UNCHANGED blockerData
           ELSE /\ blockerLast' = BlockerCall("report", args, "success", <<>>)
                /\ blockerData' = StoredDataAfterAddWrongAnswer(blockerData, courseId,
                                      quizId, questionSignature, wrongAnswerSignature, fails)
        /\ UNCHANGED <<cacheVars, apiVars, contentVars, solverVars, schedVars,
                       parserVars, backgroundVars,
                       detectorVars, hashVars, pendingVars>>

NextReport ==
    \/ \E courseId \in CourseIdArgs, quizId \in QuizIdArgs,
          questionSignature \in QuestionSignatureArgs \ {""},
          wrongAnswerSignature \in WrongAnswerSignatureArgs \ {""},
          fails \in StorageFailures :
           ReportIncorrectAnswer(courseId, quizId, questionSignature,
                                 wrongAnswerSignature, fails)
    \/ \E courseId \in CourseIdArgs, quizId \in QuizIdArgs,
          questionSignature \in QuestionSignatureArgs, fails \in StorageFailures :
           GetWrongAnswers(courseId, quizId, questionSignature, fails)
    \/ \E courseId \in CourseIdArgs, quizId \in QuizIdArgs, fails \in StorageFailures :
           ClearWrongAnswers(courseId, quizId, fails)

SpecReport == InitBlocker /\ [][NextReport]_vars

\* C37: when a REPORT_INCORRECT_ANSWER request has been answered with status
\* 'success', the store holds the reported wrong-answer signature under the
\* course and quiz of the tab and the reported question.
C37_SuccessMeansStored ==
    (/\ blockerLast # <<>>
     /\ blockerLast[1].op = "report"
     /\ blockerLast[1].outcome = "success") =>
        LET args == blockerLast[1].args
        IN  args[4] \in Range(WrongAnswersOf(
                QuizDataOf(blockerData, quizSpecificKey(args[1], args[2])), args[3]))

(***************************************************************************)
(* Rescan specification: detectAndSolveQuizzes is called again and again   *)
(* on one tab, starting with an empty cache, so that every cache entry a   *)
(* scan finds was written by an earlier scan of the page.                  *)
(***************************************************************************)
\* The call has ended (line 100 returns its promise): a later call can start.
SolverRescan ==
    /\ scan.pc = "done"
    /\ scan' = NoScan
    /\ UNCHANGED <<page, currentSettings, isSolverActive, marks, rendered, sentRequests,
                   toasts, tooltips, reads, errorLog>>
    /\ UNCHANGED <<cacheVars, apiVars, schedVars, parserVars, blockerVars, backgroundVars,
                   detectorVars, hashVars, pendingVars>>

NextRescan ==
    \/ NextSolver
    \/ SolverRescan

InitRescan ==
    /\ InitSolver
    /\ cachedAnswers = EmptyObject

SpecRescan == InitRescan /\ [][NextRescan]_vars

\* The scan is about to send the solve request of its question while the
\* cache holds, under the hash of that question, an entry none of whose
\* answers has its signature in the blocker list of this scan.
RequestDespiteEntry ==
    /\ scan.pc = "request"
    /\ LET entry == CacheGetValue(cachedAnswers, QuestionHash(scan.quizQuestions[scan.i]))
       IN  /\ entry # Null
           /\ \A k \in 1..Len(entry.answers) :
                  generateSignature(entry.answers[k])
                      \notin Range(scan.blockedAnswerSignatures)

\* C38 as stated: a question an earlier scan solved and cached causes no
\* solve request in a later scan while its entry is in the cache and no
\* cached answer is blocked.
C38_CachedQuestionIsNotRequested == ~RequestDespiteEntry

\* C38: a question an earlier scan solved and cached causes no solve request
\* in a later scan while its entry is in the cache and no cached answer is
\* blocked, unless the cache read of the later scan failed.
C38_CachedQuestionIsNotRequestedUnlessReadFails ==
    RequestDespiteEntry => <<scan.i, "CacheManager.get">> \in errorLog

\* A later scan has gone past a question whose entry is in the cache: it
\* rendered the cached bundle and sent no request for it.
C38_Witness ==
    \E i \in DOMAIN rendered :
        /\ rendered[i].source = "cache"
        /\ ~sentRequests[i].sent
        /\ CacheGetValue(cachedAnswers, QuestionHash(page.questions[i])) # Null
        /\ <<i, "CacheManager.get">> \notin errorLog

(***************************************************************************)
(* AnswerRenderer.renderAnswer (part_007 lines 16-76): what a call does to *)
(* the input element of each option and to its label.                      *)
(***************************************************************************)
\* Line 30: the option text contains some answer, whatever the case.
IsCorrectAnswer(option, answers) ==
    \E a \in 1..Len(answers) :
        Includes(ToLowerCase(option.text), ToLowerCase(answers[a]))

\* What renderAnswer does to one option: whether it sets element.checked,
\* the events it dispatches on the element, and the class it adds.
RenderedOption(checked, events, class) ==
    [checked |-> checked, events |-> events, class |-> class]

\* renderAnswer that takes the branch of line 48 whatever autoSelect is.
renderAnswerAlwaysSelecting(questionData, answers, autoSelect) ==
    [k \in 1..Len(questionData.options) |->
        LET option == questionData.options[k]
        IN  IF Len(answers) = 0 \/ ~IsCorrectAnswer(option, answers)
            THEN RenderedOption(FALSE, <<>>, "none")
            ELSE IF option.element.type \in {"radio", "checkbox"}
            THEN RenderedOption(TRUE, <<"change", "click">>, "gs-selected-answer")
            ELSE RenderedOption(FALSE, <<>>, "gs-selected-answer")]

\* Lines 16-76: nothing for an empty answer list; else each option whose
\* text contains an answer is checked, with a change and a click event, and
\* marked as selected when autoSelect is true, and only highlighted when it
\* is false.
renderAnswer(questionData, answers, autoSelect) ==
    [k \in 1..Len(questionData.options) |->
        LET option == questionData.options[k]
        IN  IF Len(answers) = 0 \/ ~IsCorrectAnswer(option, answers)
            THEN RenderedOption(FALSE, <<>>, "none")
            ELSE IF ~autoSelect
            THEN RenderedOption(FALSE, <<>>, "gs-highlighted-answer")
            ELSE IF option.element.type \in {"radio", "checkbox"}
            THEN RenderedOption(TRUE, <<"change", "click">>, "gs-selected-answer")
            ELSE RenderedOption(FALSE, <<>>, "gs-selected-answer")]

\* What the renderAnswer call of the scan did to the options of question i.
RenderEffect(i) ==
    renderAnswer(page.questions[i], rendered[i].answers, rendered[i].autoSelect)

\* C39: with auto-solve disabled the renderAnswer calls of a scan set no
\* input element to checked and dispatch no change or click event; the
\* options they touch are highlighted.
C39_ManualScanOnlyHighlights ==
    ~currentSettings.autoSolve =>
        \A i \in DOMAIN rendered :
            rendered[i].source # "none" =>
                \A k \in DOMAIN RenderEffect(i) :
                    /\ ~RenderEffect(i)[k].checked
                    /\ RenderEffect(i)[k].events = <<>>
                    /\ RenderEffect(i)[k].class \in {"none", "gs-highlighted-answer"}

\* With auto-solve disabled a manual scan rendered a fresh answer and an
\* option of the question is highlighted.
C39_Witness ==
    /\ ~currentSettings.autoSolve
    /\ scan.forceSolve
    /\ \E i \in DOMAIN rendered :
           /\ rendered[i].source = "solve"
           /\ \E k \in DOMAIN RenderEffect(i) :
                  RenderEffect(i)[k].class = "gs-highlighted-answer"

(***************************************************************************)
(* Claims about the feedback of a scan                                     *)
(***************************************************************************)
\* The scan has left question i: its answers are rendered, or its request
\* was answered and handled.
Finished(i) ==
    \/ rendered[i].source # "none"
    \/ /\ sentRequests[i].sent
       /\ \/ i < scan.i
          \/ scan.pc = "pause"
          \/ scan.pc = "done" /\ <<i, "detectAndSolveQuizzes">> \notin errorLog

\* The status classifications question i has received, from its tooltips
\* and from UIFeedback.markQuestionAsSolved.
Classifications(i) ==
    {t \in {"success", "warning", "error", "info"} : <<i, t>> \in tooltips}
    \cup (IF "gs-success" \in marks[i] THEN {"success"} ELSE {})
    \cup (IF "gs-warning" \in marks[i] THEN {"warning"} ELSE {})
    \cup (IF "gs-error" \in marks[i] THEN {"error"} ELSE {})

\* C22: every question that has reached a terminal state of the scan has a
\* status classification that is success, warning or error.
C22_TerminalQuestionIsClassified ==
    \A i \in DOMAIN rendered :
        Finished(i) => Classifications(i) \cap {"success", "warning", "error"} # {}

====
